---------------------------- MODULE Spec2Model ----------------------------
(***************************************************************************)
(* Model of the oracle-publisher data-integrity protocol of the            *)
(* sentiment-oracle repository: demo.py (keystore, canonical hashing,      *)
(* signing, envelope save / verify), verify_tampering.py (stand-alone      *)
(* verifier) and compare_hashes.py (field-level tamper report).            *)
(*                                                                         *)
(* Representation                                                          *)
(*   str     a sequence of one-character strings                           *)
(*   bytes   a sequence of integers 0..255                                 *)
(*   Python values are tagged records [t |-> tag, v |-> payload]; a dict   *)
(*   is the sequence of its <<key, value>> items in insertion order.       *)
(*   A function that can raise returns Ok(value) or Raise(exception).      *)
(*   A file holds the JSON document written to it (FileDoc), is absent     *)
(*   (NoFile) or holds text that is not JSON (Garbage).                    *)
(*                                                                         *)
(* Library code.  hashlib.sha256 is SHA-256 (FIPS 180-4) and the keys and  *)
(* signatures of the cryptography package are Ed25519 (RFC 8032); both are *)
(* written out below.  The digests, keys and signatures of the records of  *)
(* the model are kept as tables of the values those definitions give.      *)
(* A float is a double: float(text) rounds a decimal to the nearest double *)
(* and float.__repr__ writes the shortest decimal that reads back as it.   *)
(***************************************************************************)
EXTENDS Integers, Sequences, FiniteSets, TLC

---------------------------------------------------------------------------
(* Results of operations that may raise *)

Ok(v) == [ok |-> TRUE, val |-> v, exc |-> "none"]
Raise(e) == [ok |-> FALSE, val |-> <<>>, exc |-> e]

---------------------------------------------------------------------------
(* Characters *)

(* The ASCII characters in code-point order, 0..127.  A control character
   and the delete character are named by their code point; the grave accent
   (96) cannot be written in a TLA+ string and is named. *)
ASCII ==
  <<"U+0000", "U+0001", "U+0002", "U+0003", "U+0004", "U+0005", "U+0006", "U+0007",
    "U+0008", "U+0009", "U+000A", "U+000B", "U+000C", "U+000D", "U+000E", "U+000F",
    "U+0010", "U+0011", "U+0012", "U+0013", "U+0014", "U+0015", "U+0016", "U+0017",
    "U+0018", "U+0019", "U+001A", "U+001B", "U+001C", "U+001D", "U+001E", "U+001F",
    " ", "!", "\"", "#", "$", "%", "&", "'",
    "(", ")", "*", "+", ",", "-", ".", "/",
    "0", "1", "2", "3", "4", "5", "6", "7",
    "8", "9", ":", ";", "<", "=", ">", "?",
    "@", "A", "B", "C", "D", "E", "F", "G",
    "H", "I", "J", "K", "L", "M", "N", "O",
    "P", "Q", "R", "S", "T", "U", "V", "W",
    "X", "Y", "Z", "[", "\\", "]", "^", "_",
    "GRAVE", "a", "b", "c", "d", "e", "f", "g",
    "h", "i", "j", "k", "l", "m", "n", "o",
    "p", "q", "r", "s", "t", "u", "v", "w",
    "x", "y", "z", "{", "|", "}", "~", "U+007F">>

(* the code point of every character of the table *)
ORD ==
  [c \in {ASCII[i] : i \in 1..Len(ASCII)} |->
     (CHOOSE i \in 1..Len(ASCII) : ASCII[i] = c) - 1]

(* ord(c) *)
Ord(c) == ORD[c]

(* chr(n) *)
Chr(n) == ASCII[n + 1]

(* str.encode(utf-8), on ASCII text: one byte per character *)
encode_utf8(s) == [i \in 1..Len(s) |-> Ord(s[i])]

(* Python str < str: lexicographic by code point *)
RECURSIVE StrLess(_, _)
CodeLess(x, y, a, b) == IF x # y THEN x < y ELSE StrLess(Tail(a), Tail(b))
StrLess(a, b) ==
  IF b = <<>> THEN FALSE
  ELSE IF a = <<>> THEN TRUE
  ELSE CodeLess(Ord(Head(a)), Ord(Head(b)), a, b)

RECURSIVE Join(_, _)
Join(sep, ss) ==
  IF ss = <<>> THEN <<>>
  ELSE IF Len(ss) = 1 THEN Head(ss)
  ELSE Head(ss) \o sep \o Join(sep, Tail(ss))

---------------------------------------------------------------------------
(* Python values *)

PyStr(s) == [t |-> "str", v |-> s]
PyInt(n) == [t |-> "int", v |-> n]

(* str(n) of a number that is not negative *)
RECURSIVE NatChars(_)
NatChars(n) ==
  IF n < 10 THEN <<Chr(48 + n)>>
  ELSE NatChars(n \div 10) \o <<Chr(48 + (n % 10))>>

(* A decimal number 0.d1..dn x 10^point: its sign, its significant digits
   (no zero at either end; none for zero) and the place of the point.  A
   float is held as the shortest decimal that reads back as it, which is
   what float.__repr__ prints; the decimals of the model have at most 15
   significant digits, which a double keeps apart. *)
LeadingZeros(ds) == Cardinality({i \in 1..Len(ds) : \A j \in 1..i : ds[j] = "0"})
TrailingZeros(ds) == Cardinality({i \in 1..Len(ds) : \A j \in i..Len(ds) : ds[j] = "0"})

Decimal(neg, ds, point) ==
  IF LeadingZeros(ds) = Len(ds) THEN [neg |-> neg, digits |-> <<>>, point |-> 0]
  ELSE [neg |-> neg,
        digits |-> SubSeq(ds, LeadingZeros(ds) + 1, Len(ds) - TrailingZeros(ds)),
        point |-> point - LeadingZeros(ds)]

(* a float with two decimals, given as its value times 100 *)
PyFloat(h) ==
  [t |-> "float",
   v |-> Decimal(h < 0, NatChars(IF h < 0 THEN -h ELSE h),
                 Len(NatChars(IF h < 0 THEN -h ELSE h)) - 2)]
(* float(nan), float(inf), float(-inf), held as the text json writes for them *)
NAN == <<"N", "a", "N">>
INFINITY == <<"I", "n", "f", "i", "n", "i", "t", "y">>
NonFiniteTexts == {NAN, INFINITY, <<"-">> \o INFINITY}
PyNonFinite(text) == [t |-> "nonfinite", v |-> text]
PyBool(b) == [t |-> "bool", v |-> b]
PyNone == [t |-> "None", v |-> 0]
PyList(xs) == [t |-> "list", v |-> xs]
PyDict(items) == [t |-> "dict", v |-> items]
PyBytes(b) == [t |-> "bytes", v |-> b]

Keys(d) == [i \in 1..Len(d.v) |-> d.v[i][1]]
KeySet(d) == {d.v[i][1] : i \in 1..Len(d.v)}
HasKey(d, k) == d.t = "dict" /\ k \in KeySet(d)

(* d[k]: KeyError when the key is absent, TypeError when d is no mapping *)
GetItem(d, k) ==
  IF d.t # "dict" THEN Raise("TypeError")
  ELSE IF k \notin KeySet(d) THEN Raise("KeyError")
  ELSE Ok(d.v[CHOOSE i \in 1..Len(d.v) : d.v[i][1] = k][2])

IsNumber(x) == x.t \in {"int", "float", "bool"}
(* the numeric value, as a decimal; the sign of zero is dropped *)
Unsigned(d) == IF d.digits = <<>> THEN [d EXCEPT !.neg = FALSE] ELSE d

NumValue(x) ==
  CASE x.t = "int" ->
         Unsigned(Decimal(x.v < 0, NatChars(IF x.v < 0 THEN -x.v ELSE x.v),
                          Len(NatChars(IF x.v < 0 THEN -x.v ELSE x.v))))
    [] x.t = "float" -> Unsigned(x.v)
    [] x.t = "bool" -> Decimal(FALSE, IF x.v THEN <<"1">> ELSE <<"0">>, 1)

(* a is b, for two values json.load returned: the decoder gives the one
   float object json.decoder.NaN (PosInf, NegInf) for every such token *)
PyIs(a, b) == a.t = "nonfinite" /\ b.t = "nonfinite" /\ a.v = b.v

(* Python == on values: numbers compare by value across int, float and
   bool; nan equals nothing, itself included; dicts compare as mappings,
   whatever their insertion order; lists and dicts take an element that is
   the same object as equal before they compare it *)
RECURSIVE PyEq(_, _)
PyEq(a, b) ==
  IF IsNumber(a) /\ IsNumber(b) THEN NumValue(a) = NumValue(b)
  ELSE IF a.t # b.t THEN FALSE
  ELSE IF a.t = "dict" THEN
    /\ KeySet(a) = KeySet(b)
    /\ \A k \in KeySet(a) :
         \/ PyIs(GetItem(a, k).val, GetItem(b, k).val)
         \/ PyEq(GetItem(a, k).val, GetItem(b, k).val)
  ELSE IF a.t = "list" THEN
    /\ Len(a.v) = Len(b.v)
    /\ \A i \in 1..Len(a.v) : PyIs(a.v[i], b.v[i]) \/ PyEq(a.v[i], b.v[i])
  ELSE IF a.t = "nonfinite" THEN a.v = b.v /\ a.v # NAN
  ELSE a.v = b.v

---------------------------------------------------------------------------
(* json.dumps(obj, sort_keys=True) *)

(* int.__repr__ *)
IntRepr(n) == IF n < 0 THEN <<"-">> \o NatChars(-n) ELSE NatChars(n)

ZeroDigits(n) == [i \in 1..n |-> "0"]

(* the exponent of a float in exponent notation: a sign and two digits at
   least *)
ExponentRepr(e) ==
  (IF e < 0 THEN <<"-">> ELSE <<"+">>)
    \o (IF e \in -9..9 THEN <<"0">> ELSE <<>>) \o NatChars(IF e < 0 THEN -e ELSE e)

(* float.__repr__ of a finite float: the digits with the point at its
   place and at least one digit on either side; exponent notation when the
   point stands more than 16 places right of the first digit or more than 3
   places left of it *)
UnsignedRepr(digits, point) ==
  IF digits = <<>> THEN <<"0", ".", "0">>
  ELSE IF point <= -4 \/ point > 16
  THEN <<Head(digits)>> \o (IF Len(digits) > 1 THEN <<".">> \o Tail(digits) ELSE <<>>)
         \o <<"e">> \o ExponentRepr(point - 1)
  ELSE IF point <= 0 THEN <<"0", ".">> \o ZeroDigits(-point) \o digits
  ELSE IF point >= Len(digits) THEN digits \o ZeroDigits(point - Len(digits)) \o <<".", "0">>
  ELSE SubSeq(digits, 1, point) \o <<".">> \o SubSeq(digits, point + 1, Len(digits))

FloatRepr(d) == (IF d.neg THEN <<"-">> ELSE <<>>) \o UnsignedRepr(d.digits, d.point)

(* the encoder string escaping (ensure_ascii): a quote or a backslash gets
   a backslash before it; newline, carriage return, tab, backspace and form
   feed get their letter; every other character outside space..~ is written
   as \u and four hexadecimal digits *)
EscapeCode(c, n) ==
  IF n = 34 THEN <<"\\", "\"">>
  ELSE IF n = 92 THEN <<"\\", "\\">>
  ELSE IF n = 10 THEN <<"\\", "n">>
  ELSE IF n = 13 THEN <<"\\", "r">>
  ELSE IF n = 9 THEN <<"\\", "t">>
  ELSE IF n = 8 THEN <<"\\", "b">>
  ELSE IF n = 12 THEN <<"\\", "f">>
  ELSE IF n < 32 \/ n > 126
  THEN <<"\\", "u", "0", "0", Chr(48 + (n \div 16)),
         IF n % 16 < 10 THEN Chr(48 + (n % 16)) ELSE Chr(87 + (n % 16))>>
  ELSE <<c>>

EscapeChar(c) == EscapeCode(c, Ord(c))

RECURSIVE Escape(_)
Escape(s) ==
  IF Len(s) = 0 THEN <<>>
  ELSE IF Len(s) = 1 THEN EscapeChar(s[1])
  ELSE LET half == Len(s) \div 2
       IN Escape(SubSeq(s, 1, half)) \o Escape(SubSeq(s, half + 1, Len(s)))

Quote(s) == <<"\"">> \o Escape(s) \o <<"\"">>

(* sorted(dct.items()): insertion sort of the items by key *)
(* as if sort_keys were left out: the items in insertion order *)
ItemsUnsorted(items) == items

RECURSIVE InsertItem(_, _)
InsertItem(item, sorted) ==
  IF sorted = <<>> THEN <<item>>
  ELSE IF StrLess(item[1], Head(sorted)[1]) THEN <<item>> \o sorted
  ELSE <<Head(sorted)>> \o InsertItem(item, Tail(sorted))

RECURSIVE SortItems(_)
SortItems(items) ==
  IF items = <<>> THEN <<>>
  ELSE InsertItem(items[Len(items)], SortItems(SubSeq(items, 1, Len(items) - 1)))

RECURSIVE json_dumps(_)
(* the items, already sorted, as "key": value and joined by ", " *)
DumpItems(items) ==
  Join(<<",", " ">>,
       [i \in 1..Len(items) |->
          Quote(items[i][1]) \o <<":", " ">> \o json_dumps(items[i][2])])

json_dumps(obj) ==
  CASE obj.t = "str" -> Quote(obj.v)
    [] obj.t = "int" -> IntRepr(obj.v)
    [] obj.t = "float" -> FloatRepr(obj.v)
    [] obj.t = "bool" -> IF obj.v THEN <<"t", "r", "u", "e">>
                         ELSE <<"f", "a", "l", "s", "e">>
    [] obj.t = "None" -> <<"n", "u", "l", "l">>
    [] obj.t = "nonfinite" -> obj.v
    [] obj.t = "list" ->
         <<"[">> \o Join(<<",", " ">>, [i \in 1..Len(obj.v) |-> json_dumps(obj.v[i])])
                 \o <<"]">>
    [] obj.t = "dict" -> <<"{">> \o DumpItems(SortItems(obj.v)) \o <<"}">>

---------------------------------------------------------------------------
(* Bounds of the model *)

(* edits made to the files from outside the programs in one behaviour *)
MaxEdits == 1
(* distinct draws of the key generator *)
MaxSeeds == 2
(* the largest limit get_tweets is called with *)
MaxLimit == 3
(* the most elements a page holds *)
MaxElements == 4
(* the longest list of tweets analyze_sentiment is given: two batches and one *)
MaxTweets == 17

Seeds == 1..MaxSeeds

---------------------------------------------------------------------------
(* The records and the outside edits of the model *)

K_id == <<"i", "d">>
K_label == <<"l", "a", "b", "e", "l">>
K_score == <<"s", "c", "o", "r", "e">>
K_extra == <<"e", "x", "t", "r", "a">>

V_POS == PyStr(<<"P", "O", "S">>)
V_NEG == PyStr(<<"N", "E", "G">>)

Reverse(seq) == [i \in 1..Len(seq) |-> seq[Len(seq) + 1 - i]]

SampleRecord ==
  PyDict(<< <<K_id, PyStr(<<"1">>)>>, <<K_label, V_POS>>, <<K_score, PyFloat(87)>> >>)

(* what sample_sentiment.json may hold: the record of the README in two key
   orders *)
SampleRecords == {SampleRecord, PyDict(Reverse(SampleRecord.v))}

(* sample_sentiment.json with a score that is not a finite number: the
   tokens NaN and Infinity, which json.load reads as floats *)
NonFiniteRecords ==
  {PyDict(<< <<K_id, PyStr(<<"1">>)>>, <<K_label, V_POS>>,
             <<K_score, PyNonFinite(text)>> >>) : text \in {NAN, INFINITY}}

(* a record with values of every JSON type, nested, and characters that
   are escaped in the file *)
NestedRecord ==
  PyDict(<< <<K_score, PyFloat(-50)>>,
            <<<<"n">>, PyInt(7)>>,
            <<<<"o", "k">>, PyBool(TRUE)>>,
            <<<<"t", "a", "g", "s">>,
              PyList(<<PyStr(<<"a", "\"", "b", "\\">>), PyNone, PyInt(-12)>>)>>,
            <<<<"m">>, PyDict(<< <<K_id, PyStr(<<>>)>> >>)>> >>)

(* dict operations used by the edits *)
SetItem(d, k, x) ==
  IF k \in KeySet(d)
  THEN PyDict([i \in 1..Len(d.v) |-> IF d.v[i][1] = k THEN <<k, x>> ELSE d.v[i]])
  ELSE PyDict(Append(d.v, <<k, x>>))

DelItem(d, k) ==
  LET keep == {i \in 1..Len(d.v) : d.v[i][1] # k}
      nth(n) == CHOOSE i \in keep : Cardinality({j \in keep : j < i}) = n - 1
  IN PyDict([n \in 1..Cardinality(keep) |-> d.v[nth(n)]])

(* edits of a record: one value changed, two values changed, a field
   added, a field removed; and the same record written with its keys in
   another order *)
Mutations == {"label", "score", "both", "add", "remove", "reorder"}

Mutate(record, m) ==
  CASE m = "label" -> SetItem(record, K_label, V_NEG)
    [] m = "score" -> SetItem(record, K_score, PyFloat(50))
    [] m = "both" -> SetItem(SetItem(record, K_label, V_NEG), K_score, PyFloat(50))
    [] m = "add" -> SetItem(record, K_extra, PyStr(<<"x">>))
    [] m = "remove" -> DelItem(record, K_score)
    [] m = "reorder" -> PyDict(Reverse(record.v))

(* byte strings of the wrong length: one byte short, one byte long *)
Truncate(b) == SubSeq(b, 1, Len(b) - 1)
Extend(b) == Append(b, 0)

---------------------------------------------------------------------------
(* Bit operations.  The integers of TLC have 32 bits, so a machine
   word is held as a sequence of 16-bit limbs, the most significant first:
   two limbs for the 32-bit words of SHA-256, four for the 64-bit words of
   SHA-512. *)

(* a function over 1..n as the tuple of its values *)
Tuple(f) == f \o <<>>

(* a XOR b for 0 <= a, b < 16 *)
XOR4 ==
  <<<<0, 1, 2, 3, 4, 5, 6, 7, 8, 9, 10, 11, 12, 13, 14, 15>>,
    <<1, 0, 3, 2, 5, 4, 7, 6, 9, 8, 11, 10, 13, 12, 15, 14>>,
    <<2, 3, 0, 1, 6, 7, 4, 5, 10, 11, 8, 9, 14, 15, 12, 13>>,
    <<3, 2, 1, 0, 7, 6, 5, 4, 11, 10, 9, 8, 15, 14, 13, 12>>,
    <<4, 5, 6, 7, 0, 1, 2, 3, 12, 13, 14, 15, 8, 9, 10, 11>>,
    <<5, 4, 7, 6, 1, 0, 3, 2, 13, 12, 15, 14, 9, 8, 11, 10>>,
    <<6, 7, 4, 5, 2, 3, 0, 1, 14, 15, 12, 13, 10, 11, 8, 9>>,
    <<7, 6, 5, 4, 3, 2, 1, 0, 15, 14, 13, 12, 11, 10, 9, 8>>,
    <<8, 9, 10, 11, 12, 13, 14, 15, 0, 1, 2, 3, 4, 5, 6, 7>>,
    <<9, 8, 11, 10, 13, 12, 15, 14, 1, 0, 3, 2, 5, 4, 7, 6>>,
    <<10, 11, 8, 9, 14, 15, 12, 13, 2, 3, 0, 1, 6, 7, 4, 5>>,
    <<11, 10, 9, 8, 15, 14, 13, 12, 3, 2, 1, 0, 7, 6, 5, 4>>,
    <<12, 13, 14, 15, 8, 9, 10, 11, 4, 5, 6, 7, 0, 1, 2, 3>>,
    <<13, 12, 15, 14, 9, 8, 11, 10, 5, 4, 7, 6, 1, 0, 3, 2>>,
    <<14, 15, 12, 13, 10, 11, 8, 9, 6, 7, 4, 5, 2, 3, 0, 1>>,
    <<15, 14, 13, 12, 11, 10, 9, 8, 7, 6, 5, 4, 3, 2, 1, 0>>>>

POW2 ==
  <<1, 2, 4, 8, 16, 32, 64, 128, 256,
    512, 1024, 2048, 4096, 8192, 16384, 32768, 65536>>

Xor8(a, b) ==
  XOR4[(a % 16) + 1][(b % 16) + 1] + 16 * XOR4[(a \div 16) + 1][(b \div 16) + 1]

Xor16(a, b) == Xor8(a % 256, b % 256) + 256 * Xor8(a \div 256, b \div 256)

And16(a, b) == (a + b - Xor16(a, b)) \div 2

WordXor(u, v) == Tuple([i \in 1..Len(u) |-> Xor16(u[i], v[i])])
WordAnd(u, v) == Tuple([i \in 1..Len(u) |-> And16(u[i], v[i])])
WordNot(u) == Tuple([i \in 1..Len(u) |-> 65535 - u[i]])

(* limbs 1..i of u + v, given the carry into limb i *)
RECURSIVE AddLimbs(_, _, _, _)
AddLimbs(u, v, i, c) ==
  IF i = 0 THEN <<>>
  ELSE Append(AddLimbs(u, v, i - 1, (u[i] + v[i] + c) \div 65536),
              (u[i] + v[i] + c) % 65536)

(* u + v modulo the word size *)
WordAdd(u, v) == AddLimbs(u, v, Len(u), 0)

(* the low 16 bits of the 32-bit value hi:lo shifted right by n < 16 *)
Shift16(hi, lo, n) == (lo \div POW2[n + 1]) + (hi % POW2[n + 1]) * POW2[17 - n]

(* limb i of u, counted round the word *)
LimbAround(u, i) == u[((i - 1 + Len(u)) % Len(u)) + 1]

(* limb i of u, zero above the most significant limb *)
LimbOrZero(u, i) == IF i < 1 THEN 0 ELSE u[i]

(* rotate right, shift right *)
Rotr(u, n) ==
  Tuple([i \in 1..Len(u) |->
     Shift16(LimbAround(u, i - (n \div 16) - 1), LimbAround(u, i - (n \div 16)), n % 16)])

Shr(u, n) ==
  Tuple([i \in 1..Len(u) |->
     Shift16(LimbOrZero(u, i - (n \div 16) - 1), LimbOrZero(u, i - (n \div 16)), n % 16)])

---------------------------------------------------------------------------
(* hashlib: SHA-256 and SHA-512 (FIPS 180-4).  The two differ in the word
   size, the constants, the rotation amounts and the number of rounds. *)

SHA256_DIGEST_SIZE == 32

SHA256_K ==
  <<<<17034, 12184>>, <<28983, 17553>>, <<46528, 64463>>, <<59829, 56229>>,
    <<14678, 49755>>, <<23025, 4593>>, <<37439, 33444>>, <<43804, 24277>>,
    <<55303, 43672>>, <<4739, 23297>>, <<9265, 34238>>, <<21772, 32195>>,
    <<29374, 23924>>, <<32990, 45566>>, <<39900, 1703>>, <<49563, 61812>>,
    <<58523, 27073>>, <<61374, 18310>>, <<4033, 40390>>, <<9228, 41420>>,
    <<11753, 11375>>, <<19060, 33962>>, <<23728, 43484>>, <<30457, 35034>>,
    <<38974, 20818>>, <<43057, 50797>>, <<45059, 10184>>, <<48985, 32711>>,
    <<50912, 3059>>, <<54695, 37191>>, <<1738, 25425>>, <<5161, 10599>>,
    <<10167, 2693>>, <<11803, 8504>>, <<19756, 28156>>, <<21304, 3347>>,
    <<25866, 29524>>, <<30314, 2747>>, <<33218, 51502>>, <<37490, 11397>>,
    <<41663, 59553>>, <<43034, 26187>>, <<49739, 35696>>, <<51052, 20899>>,
    <<53650, 59417>>, <<54937, 1572>>, <<62478, 13701>>, <<4202, 41072>>,
    <<6564, 49430>>, <<7735, 27656>>, <<10056, 30540>>, <<13488, 48309>>,
    <<14620, 3251>>, <<20184, 43594>>, <<23452, 51791>>, <<26670, 28659>>,
    <<29839, 33518>>, <<30885, 25455>>, <<33992, 30740>>, <<36039, 520>>,
    <<37054, 65530>>, <<42064, 27883>>, <<48889, 41975>>, <<50801, 30962>>>>

SHA256_H0 ==
  <<<<27145, 58983>>, <<47975, 44677>>, <<15470, 62322>>, <<42319, 62778>>,
    <<20750, 21119>>, <<39685, 26764>>, <<8067, 55723>>, <<23520, 52505>>>>

SHA512_K ==
  <<<<17034, 12184, 55080, 44578>>, <<28983, 17553, 9199, 26061>>,
    <<46528, 64463, 60493, 15151>>, <<59829, 56229, 33161, 56252>>,
    <<14678, 49755, 62280, 46392>>, <<23025, 4593, 46597, 53273>>,
    <<37439, 33444, 44825, 20379>>, <<43804, 24277, 55917, 33048>>,
    <<55303, 43672, 41731, 578>>, <<4739, 23297, 17776, 28606>>,
    <<9265, 34238, 20196, 45708>>, <<21772, 32195, 54783, 46306>>,
    <<29374, 23924, 62075, 35183>>, <<32990, 45566, 15126, 38577>>,
    <<39900, 1703, 9671, 4661>>, <<49563, 61812, 53097, 9876>>,
    <<58523, 27073, 40689, 19154>>, <<61374, 18310, 14415, 9699>>,
    <<4033, 40390, 35724, 54709>>, <<9228, 41420, 30636, 40037>>,
    <<11753, 11375, 22827, 629>>, <<19060, 33962, 28326, 58499>>,
    <<23728, 43484, 48449, 64468>>, <<30457, 35034, 33553, 21429>>,
    <<38974, 20818, 61030, 57259>>, <<43057, 50797, 11700, 12816>>,
    <<45059, 10184, 39163, 8511>>, <<48985, 32711, 48879, 3812>>,
    <<50912, 3059, 15784, 36802>>, <<54695, 37191, 37642, 42789>>,
    <<1738, 25425, 57347, 33391>>, <<5161, 10599, 2574, 28272>>,
    <<10167, 2693, 18130, 12284>>, <<11803, 8504, 23590, 51494>>,
    <<19756, 28156, 23236, 10989>>, <<21304, 3347, 40341, 46047>>,
    <<25866, 29524, 35759, 25566>>, <<30314, 2747, 15479, 45736>>,
    <<33218, 51502, 18413, 44774>>, <<37490, 11397, 5250, 13627>>,
    <<41663, 59553, 19697, 868>>, <<43034, 26187, 48194, 12289>>,
    <<49739, 35696, 53496, 38801>>, <<51052, 20899, 1620, 48688>>,
    <<53650, 59417, 55023, 21016>>, <<54937, 1572, 21861, 43280>>,
    <<62478, 13701, 22385, 8234>>, <<4202, 41072, 12987, 53688>>,
    <<6564, 49430, 47314, 53448>>, <<7735, 27656, 20801, 43859>>,
    <<10056, 30540, 57230, 60313>>, <<13488, 48309, 57755, 18600>>,
    <<14620, 3251, 50633, 23139>>, <<20184, 43594, 58177, 35531>>,
    <<23452, 51791, 30563, 58227>>, <<26670, 28659, 54962, 47267>>,
    <<29839, 33518, 24047, 45820>>, <<30885, 25455, 17175, 12128>>,
    <<33992, 30740, 41456, 43890>>, <<36039, 520, 6756, 14828>>,
    <<37054, 65530, 9059, 7720>>, <<42064, 27883, 56962, 48617>>,
    <<48889, 41975, 45766, 30997>>, <<50801, 30962, 58226, 21291>>,
    <<51751, 16078, 59942, 24988>>, <<53638, 47303, 8640, 49671>>,
    <<60122, 32214, 52704, 60190>>, <<62845, 20351, 61038, 53624>>,
    <<1776, 26538, 29207, 28602>>, <<2659, 32197, 41672, 39078>>,
    <<4415, 38916, 48889, 3502>>, <<7025, 2869, 4892, 18203>>,
    <<10459, 30709, 8964, 32132>>, <<13002, 43899, 16583, 9363>>,
    <<15518, 48650, 5577, 48828>>, <<17181, 26564, 39952, 3404>>,
    <<19653, 54462, 52030, 17078>>, <<22911, 10652, 64613, 32298>>,
    <<24523, 28587, 15062, 64236>>, <<27716, 6540, 19015, 22551>>>>

SHA512_H0 ==
  <<<<27145, 58983, 62396, 51464>>, <<47975, 44677, 33994, 42811>>,
    <<15470, 62322, 65172, 63531>>, <<42319, 62778, 24349, 14065>>,
    <<20750, 21119, 44518, 33489>>, <<39685, 26764, 11070, 27679>>,
    <<8067, 55723, 64321, 48491>>, <<23520, 52505, 4990, 8569>>>>

SHA256 ==
  [K |-> SHA256_K, H0 |-> SHA256_H0, limbs |-> 2,
   big0 |-> <<2, 13, 22>>, big1 |-> <<6, 11, 25>>,
   small0 |-> <<7, 18, 3>>, small1 |-> <<17, 19, 10>>]

SHA512 ==
  [K |-> SHA512_K, H0 |-> SHA512_H0, limbs |-> 4,
   big0 |-> <<28, 34, 39>>, big1 |-> <<14, 18, 41>>,
   small0 |-> <<1, 8, 7>>, small1 |-> <<19, 61, 6>>]

(* bytes in a block: sixteen words *)
BlockSize(alg) == 32 * alg.limbs

Ch(e, f, g) == WordXor(WordAnd(e, f), WordAnd(WordNot(e), g))
Maj(a, b, c) == WordXor(WordXor(WordAnd(a, b), WordAnd(a, c)), WordAnd(b, c))
BigSigma(r, u) == WordXor(WordXor(Rotr(u, r[1]), Rotr(u, r[2])), Rotr(u, r[3]))
SmallSigma(r, u) == WordXor(WordXor(Rotr(u, r[1]), Rotr(u, r[2])), Shr(u, r[3]))

(* the message schedule: the sixteen words of the block, extended to one
   word per round *)
ScheduleWord(alg, w) ==
  WordAdd(WordAdd(SmallSigma(alg.small1, w[Len(w) - 1]), w[Len(w) - 6]),
          WordAdd(SmallSigma(alg.small0, w[Len(w) - 14]), w[Len(w) - 15]))

RECURSIVE Schedule(_, _, _)
Schedule(alg, w, n) ==
  IF Len(w) >= n THEN w
  ELSE IF Len(w) + 1 = n THEN Append(w, ScheduleWord(alg, w))
  ELSE CHOOSE r \in {Schedule(alg, w2, n) :
                      w2 \in {Schedule(alg, w, (Len(w) + n) \div 2)}} : TRUE

(* one round on the working variables a..h *)
T1(alg, s, k, w) ==
  WordAdd(WordAdd(WordAdd(s[8], BigSigma(alg.big1, s[5])),
                  WordAdd(Ch(s[5], s[6], s[7]), k)), w)

T2(alg, s) == WordAdd(BigSigma(alg.big0, s[1]), Maj(s[1], s[2], s[3]))

RoundStep(s, t1, t2) ==
  <<WordAdd(t1, t2), s[1], s[2], s[3], WordAdd(s[4], t1), s[5], s[6], s[7]>>

Round(alg, s, w, t) ==
  CHOOSE r \in {RoundStep(s, t1, t2) : t1 \in {T1(alg, s, alg.K[t], w[t])},
                                      t2 \in {T2(alg, s)}} : TRUE

(* rounds lo..hi *)
RECURSIVE Rounds(_, _, _, _, _)
Rounds(alg, s, w, lo, hi) ==
  IF lo = hi THEN Round(alg, s, w, lo)
  ELSE CHOOSE r \in {Rounds(alg, s2, w, ((lo + hi) \div 2) + 1, hi) :
                      s2 \in {Rounds(alg, s, w, lo, (lo + hi) \div 2)}} : TRUE

(* the word at bytes i.. of b, big-endian *)
WordAt(alg, b, i) ==
  Tuple([j \in 1..alg.limbs |-> 256 * b[i + 2 * (j - 1)] + b[i + 2 * (j - 1) + 1]])

BlockWords(alg, m, n) ==
  Tuple([j \in 1..16 |-> WordAt(alg, m, BlockSize(alg) * (n - 1) + 2 * alg.limbs * (j - 1) + 1)])

Compress(h, s) == Tuple([i \in 1..8 |-> WordAdd(h[i], s[i])])

Block(alg, h, m, n) ==
  CHOOSE r \in {Compress(h, s) :
                 s \in {Rounds(alg, h, w, 1, Len(alg.K)) :
                          w \in {Schedule(alg, BlockWords(alg, m, n), Len(alg.K))}}} : TRUE

(* blocks lo..hi of the padded message m folded into the state h *)
RECURSIVE Blocks(_, _, _, _, _)
Blocks(alg, h, m, lo, hi) ==
  IF lo = hi THEN Block(alg, h, m, lo)
  ELSE CHOOSE r \in {Blocks(alg, h2, m, ((lo + hi) \div 2) + 1, hi) :
                      h2 \in {Blocks(alg, h, m, lo, (lo + hi) \div 2)}} : TRUE

(* the length of the message in bits, big-endian in n bytes *)
LengthBytes(bytes, n) ==
  Tuple([j \in 1..n |->
     IF n - j = 0 THEN (8 * bytes) % 256
     ELSE IF n - j = 1 THEN ((8 * bytes) \div 256) % 256
     ELSE IF n - j = 2 THEN ((8 * bytes) \div 65536) % 256
     ELSE IF n - j = 3 THEN (8 * bytes) \div 16777216
     ELSE 0])

(* the message, the byte 0x80, zeros, and the length of the message in the
   last eighth of the last block *)
Sha2Pad(alg, m) ==
  m \o <<128>>
    \o Tuple([i \in 1..((2 * BlockSize(alg) - 1 - (BlockSize(alg) \div 8) - Len(m))
                    % BlockSize(alg)) |-> 0])
    \o LengthBytes(Len(m), BlockSize(alg) \div 8)

Sha256Pad(m) == Sha2Pad(SHA256, m)

(* the state as bytes, big-endian *)
DigestBytes(alg, h) ==
  Tuple([i \in 1..(16 * alg.limbs) |->
     IF i % 2 = 1
     THEN h[((i - 1) \div (2 * alg.limbs)) + 1][(((i - 1) % (2 * alg.limbs)) \div 2) + 1] \div 256
     ELSE h[((i - 1) \div (2 * alg.limbs)) + 1][(((i - 1) % (2 * alg.limbs)) \div 2) + 1] % 256])

Sha2Padded(alg, m) ==
  DigestBytes(alg, Blocks(alg, alg.H0, m, 1, Len(m) \div BlockSize(alg)))

Sha2(alg, data) ==
  CHOOSE r \in {Sha2Padded(alg, m) : m \in {Sha2Pad(alg, data)}} : TRUE

(* hashlib.sha256(data).digest() computed *)
Sha256Digest(data) == Sha2(SHA256, data)

(* hashlib.sha512(data).digest() *)
Sha512Digest(data) == Sha2(SHA512, data)


(* The values hashed in the model: every record the sample file can hold or
   the edits of one behaviour and one edit more can make of it, the list of
   its field names and its JSON text held as a string, and the record of
   nested values.  Their digests are computed once and looked up; the
   digest of any other byte string is computed when asked for. *)
MutationPaths == UNION {[1..n -> Mutations] : n \in 0..(MaxEdits + 1)}

RECURSIVE Mutated(_, _)
Mutated(record, path) ==
  IF path = <<>> THEN record ELSE Mutated(Mutate(record, Head(path)), Tail(path))

FieldNames(record) == PyList([i \in 1..Len(record.v) |-> PyStr(record.v[i][1])])

HashedValues(record) == <<record, FieldNames(record), PyStr(json_dumps(record))>>

HashedTexts(records) ==
  {encode_utf8(json_dumps(HashedValues(Mutated(r, path))[k])) :
     r \in records, path \in MutationPaths, k \in 1..3}

SHA256_KNOWN ==
  HashedTexts(SampleRecords) \cup HashedTexts(NonFiniteRecords)
    \cup {encode_utf8(json_dumps(NestedRecord))}

SHA256_DIGESTS == [d \in SHA256_KNOWN |-> Sha256Digest(d)]

(* hashlib.sha256(data).digest() *)
sha256(data) ==
  IF data \in SHA256_KNOWN THEN SHA256_DIGESTS[data] ELSE Sha256Digest(data)

(* as if only the field names were hashed, not the values *)
hash_field_names(sentiment_data) ==
  sha256(encode_utf8(json_dumps(FieldNames(sentiment_data))))

(* demo.hash_sentiment_data *)
hash_sentiment_data(sentiment_data) ==
  sha256(encode_utf8(json_dumps(sentiment_data)))

---------------------------------------------------------------------------
(* base64 *)

B64ALPHABET ==
  <<"A", "B", "C", "D", "E", "F", "G", "H", "I", "J", "K", "L", "M", "N", "O", "P",
    "Q", "R", "S", "T", "U", "V", "W", "X", "Y", "Z", "a", "b", "c", "d", "e", "f",
    "g", "h", "i", "j", "k", "l", "m", "n", "o", "p", "q", "r", "s", "t", "u", "v",
    "w", "x", "y", "z", "0", "1", "2", "3", "4", "5", "6", "7", "8", "9", "+", "/">>

B64Chars == {B64ALPHABET[i] : i \in 1..Len(B64ALPHABET)}

(* the value 0..63 of every character of the alphabet *)
B64INDEX ==
  [c \in B64Chars |-> (CHOOSE i \in 1..Len(B64ALPHABET) : B64ALPHABET[i] = c) - 1]

B64Index(c) == B64INDEX[c]

Pow2(n) == IF n = 0 THEN 1 ELSE IF n = 2 THEN 4 ELSE IF n = 4 THEN 16
           ELSE IF n = 6 THEN 64 ELSE IF n = 8 THEN 256 ELSE 1024

(* as if the padding were stripped from the encoded text *)
b64encode_unpadded(b) ==
  [i \in 1..((8 * Len(b) + 5) \div 6) |->
     B64ALPHABET[((((IF ((6 * (i - 1)) \div 8) + 1 <= Len(b)
                      THEN b[((6 * (i - 1)) \div 8) + 1] ELSE 0) * 256
                    + (IF ((6 * (i - 1)) \div 8) + 2 <= Len(b)
                       THEN b[((6 * (i - 1)) \div 8) + 2] ELSE 0))
                   \div Pow2(10 - ((6 * (i - 1)) % 8))) % 64) + 1]]

(* base64.b64encode(b).decode(utf-8): 3 bytes become 4 characters, the
   last group padded with = *)
b64encode(b) ==
  LET n == Len(b)
      nsext == (8 * n + 5) \div 6
      byte(k) == IF k + 1 <= n THEN b[k + 1] ELSE 0
      sextet(m) == LET k == (6 * m) \div 8
                       off == (6 * m) % 8
                   IN ((byte(k) * 256 + byte(k + 1)) \div Pow2(10 - off)) % 64
      npad == (4 - (nsext % 4)) % 4
  IN [i \in 1..nsext |-> B64ALPHABET[sextet(i - 1) + 1]] \o [i \in 1..npad |-> "="]

(* binascii.a2b_base64, not strict: characters outside the alphabet are
   skipped; a = ends the data when it completes the padding of a group that
   holds two or three characters; data left in an unfinished group of four
   is an error *)
B64DataBefore(s, i) == {j \in 1..(i - 1) : s[j] \in B64Chars}

B64PadsAfter(s, i, data) ==
  Cardinality({j \in 1..i : s[j] = "=" /\ \A d \in data : d < j})

B64Completes(s, i, data) ==
  /\ Cardinality(data) % 4 >= 2
  /\ (Cardinality(data) % 4) + B64PadsAfter(s, i, data) >= 4

B64EndsData(s, i) == s[i] = "=" /\ B64Completes(s, i, B64DataBefore(s, i))

RECURSIVE B64Sextets(_, _, _)
B64Sextets(s, lo, hi) ==
  IF lo > hi THEN <<>>
  ELSE IF lo = hi THEN (IF s[lo] \in B64Chars THEN <<B64Index(s[lo])>> ELSE <<>>)
  ELSE B64Sextets(s, lo, (lo + hi) \div 2) \o B64Sextets(s, ((lo + hi) \div 2) + 1, hi)

(* the data ends before the first = that completes a padding: 0 when none does *)
B64First(ends) == IF ends = {} THEN 0 ELSE CHOOSE i \in ends : \A j \in ends : i <= j

B64Stop(s) == B64First({i \in 1..Len(s) : B64EndsData(s, i)})

(* the bytes of the sextets: 4 make 3, a last 2 make 1, a last 3 make 2 *)
B64Bytes(sx) ==
  [j \in 1..((6 * Len(sx)) \div 8) |->
     ((sx[((8 * (j - 1)) \div 6) + 1] * 64 + sx[((8 * (j - 1)) \div 6) + 2])
        \div Pow2(4 - ((8 * (j - 1)) % 6))) % 256]

B64Decoded(stop, sx) ==
  IF stop # 0 \/ Len(sx) % 4 = 0 THEN Ok(B64Bytes(sx)) ELSE Raise("binascii.Error")

B64Upto(s, stop) ==
  B64Decoded(stop, B64Sextets(s, 1, IF stop = 0 THEN Len(s) ELSE stop - 1))

(* base64.b64decode(s): bytes, or binascii.Error *)
b64decode(s) == B64Upto(s, B64Stop(s))

HEXDIGITS ==
  <<"0", "1", "2", "3", "4", "5", "6", "7", "8", "9", "a", "b", "c", "d", "e", "f">>

(* bytes.hex(): two digits per byte *)
Hex(b) ==
  [i \in 1..(2 * Len(b)) |->
     LET byte == b[(i + 1) \div 2]
     IN HEXDIGITS[(IF i % 2 = 1 THEN byte \div 16 ELSE byte % 16) + 1]]

---------------------------------------------------------------------------
(* Large integers: sequences of 15-bit limbs, the least significant first.
   A field element modulo p = 2^255 - 19 and a scalar modulo the group order
   take 17 limbs. *)

LIMB == 2^15

PairSum(s, t) == <<s[1] + t[1], s[2] + t[2]>>

(* the carries through limbs lo..hi of w, given the carry c into limb lo:
   the digits and the carry out *)
RECURSIVE CarryRange(_, _, _, _)
RECURSIVE CarryUpper(_, _, _, _)
CarryJoin(low, high) == [digits |-> low.digits \o high.digits, carry |-> high.carry]

CarryUpper(w, mid, hi, low) ==
  CHOOSE r \in {CarryJoin(low, high) : high \in {CarryRange(w, mid + 1, hi, low.carry)}} : TRUE

CarryRange(w, lo, hi, c) ==
  IF lo = hi
  THEN [digits |-> <<(w[lo] + c) % LIMB>>, carry |-> (w[lo] + c) \div LIMB]
  ELSE CHOOSE r \in {CarryUpper(w, (lo + hi) \div 2, hi, low) :
                      low \in {CarryRange(w, lo, (lo + hi) \div 2, c)}} : TRUE

CarryOut(r) == r.digits \o <<r.carry % LIMB, r.carry \div LIMB>>

(* the limbs of the number whose limbs, not yet below 2^15, are w: two
   limbs longer than w *)
Carry(w) == CarryOut(CarryRange(w, 1, Len(w), 0))

LimbAt(u, i) == IF i >= 1 /\ i <= Len(u) THEN u[i] ELSE 0

(* column k of the product u * v: the sum of the limb products u[i] * v[k + 1 - i],
   low 15 bits and the rest summed apart *)
RECURSIVE ColumnSum(_, _, _, _, _)
ColumnSum(u, v, k, lo, hi) ==
  IF lo > hi THEN <<0, 0>>
  ELSE IF lo = hi THEN <<(u[lo] * v[k + 1 - lo]) % LIMB, (u[lo] * v[k + 1 - lo]) \div LIMB>>
  ELSE PairSum(ColumnSum(u, v, k, lo, (lo + hi) \div 2),
               ColumnSum(u, v, k, ((lo + hi) \div 2) + 1, hi))

Max(a, b) == IF a >= b THEN a ELSE b
Min(a, b) == IF a <= b THEN a ELSE b

Columns(u, v) ==
  Tuple([k \in 1..(Len(u) + Len(v) - 1) |->
     ColumnSum(u, v, k, Max(1, k + 1 - Len(v)), Min(Len(u), k))])

ColumnLimbs(cols) ==
  Tuple([k \in 1..(Len(cols) + 1) |->
     (IF k <= Len(cols) THEN cols[k][1] ELSE 0) + (IF k > 1 THEN cols[k - 1][2] ELSE 0)])

(* u * v, limbs not yet carried *)
Product(u, v) == CHOOSE r \in {ColumnLimbs(cols) : cols \in {Columns(u, v)}} : TRUE

(* bit i of u, the least significant being bit 0 *)
Bit(u, i) == (u[(i \div 15) + 1] \div POW2[(i % 15) + 1]) % 2

(* n bytes, little-endian, as m limbs, and back *)
ByteAt(b, i) == IF i <= Len(b) THEN b[i] ELSE 0

LimbsOfBytes(b, m) ==
  Tuple([i \in 1..m |->
     ((ByteAt(b, ((15 * (i - 1)) \div 8) + 1) + 256 * ByteAt(b, ((15 * (i - 1)) \div 8) + 2)
        + 65536 * ByteAt(b, ((15 * (i - 1)) \div 8) + 3))
      \div POW2[((15 * (i - 1)) % 8) + 1]) % LIMB])

BytesOfLimbs(u, n) ==
  Tuple([j \in 1..n |->
     ((LimbAt(u, ((8 * (j - 1)) \div 15) + 1) + LIMB * LimbAt(u, ((8 * (j - 1)) \div 15) + 2))
      \div POW2[((8 * (j - 1)) % 15) + 1]) % 256])

---------------------------------------------------------------------------
(* The field of integers modulo p = 2^255 - 19 *)

FIELD_P ==
  <<32749, 32767, 32767, 32767, 32767, 32767, 32767, 32767, 32767,
    32767, 32767, 32767, 32767, 32767, 32767, 32767, 32767>>

(* 2p, limb by limb *)
FIELD_2P ==
  <<65498, 65534, 65534, 65534, 65534, 65534, 65534, 65534, 65534,
    65534, 65534, 65534, 65534, 65534, 65534, 65534, 65534>>

FIELD_ZERO == Tuple([i \in 1..17 |-> 0])
FIELD_ONE == Tuple([i \in 1..17 |-> IF i = 1 THEN 1 ELSE 0])

(* 2^255 = 19 modulo p: the limbs above the 17th, times 19, added to the
   limbs below *)
FieldFold(w) ==
  Tuple([i \in 1..Max(17, Len(w) - 17) |-> LimbAt(w, i) * (IF i <= 17 THEN 1 ELSE 0)
                                      + 19 * LimbAt(w, 17 + i)])

(* u < 2^255 brought below p: u + 19 reaches 2^255 exactly when u >= p *)
FieldBelowP(u, t) == IF t[18] >= 1 THEN SubSeq(t, 1, 17) ELSE u

FieldCanonical(u) ==
  FieldBelowP(u, Carry(Tuple([i \in 1..17 |-> u[i] + (IF i = 1 THEN 19 ELSE 0)])))

(* the carried limbs u reduced modulo p *)
RECURSIVE FieldOf(_)
FieldOf(u) ==
  IF \A i \in 18..Len(u) : u[i] = 0 THEN FieldCanonical(SubSeq(u, 1, 17))
  ELSE CHOOSE r \in {FieldOf(u2) : u2 \in {Carry(FieldFold(u))}} : TRUE

FieldReduce(w) == CHOOSE r \in {FieldOf(u) : u \in {Carry(w)}} : TRUE

FieldAdd(u, v) == FieldReduce(Tuple([i \in 1..17 |-> u[i] + v[i]]))
FieldSub(u, v) == FieldReduce(Tuple([i \in 1..17 |-> u[i] + FIELD_2P[i] - v[i]]))
FieldMul(u, v) == CHOOSE r \in {FieldReduce(FieldFold(w)) : w \in {Product(u, v)}} : TRUE
FieldNeg(u) == FieldSub(FIELD_ZERO, u)

(* u to the power e: square and multiply over bits hi..lo of e, from the top *)
FieldPowBit(u, e, s, i) ==
  CHOOSE r \in {IF Bit(e, i) = 1 THEN FieldMul(sq, u) ELSE sq : sq \in {FieldMul(s, s)}} : TRUE

RECURSIVE FieldPowBits(_, _, _, _, _)
FieldPowBits(u, e, s, hi, lo) ==
  IF hi = lo THEN FieldPowBit(u, e, s, hi)
  ELSE CHOOSE r \in {FieldPowBits(u, e, s2, (hi + lo) \div 2, lo) :
                      s2 \in {FieldPowBits(u, e, s, hi, ((hi + lo) \div 2) + 1)}} : TRUE

FieldPow(u, e) == FieldPowBits(u, e, FIELD_ONE, 254, 0)

(* p - 2: u^(p - 2) is the inverse of u *)
FIELD_P_MINUS_2 ==
  <<32747, 32767, 32767, 32767, 32767, 32767, 32767, 32767, 32767,
    32767, 32767, 32767, 32767, 32767, 32767, 32767, 32767>>

FieldInv(u) == FieldPow(u, FIELD_P_MINUS_2)

(* (p + 3) / 8 and a square root of -1: the square root of a square u is
   u^((p + 3) / 8), or that times the root of -1 *)
FIELD_P_PLUS_3_DIV_8 ==
  <<32766, 32767, 32767, 32767, 32767, 32767, 32767, 32767, 32767,
    32767, 32767, 32767, 32767, 32767, 32767, 32767, 4095>>

FIELD_SQRT_M1 ==
  <<8368, 5149, 27805, 10096, 18316, 9724, 427, 8588, 10031,
    30639, 25847, 26628, 12980, 15329, 5104, 4672, 11139>>

---------------------------------------------------------------------------
(* The curve edwards25519: -x^2 + y^2 = 1 + d x^2 y^2.  A point is held in
   extended coordinates <<X, Y, Z, T>>, x = X/Z, y = Y/Z, x y = T/Z. *)

CURVE_D ==
  <<30883, 9906, 14120, 12122, 2743, 10299, 4944, 14341, 6144,
    29649, 26077, 14851, 14540, 32718, 2779, 13943, 20995>>

(* the base point *)
CURVE_BX ==
  <<21786, 7755, 13698, 19121, 31532, 9396, 22565, 5731, 23657,
    11704, 18423, 10001, 27658, 19071, 29531, 7017, 8553>>

CURVE_BY ==
  <<26200, 19660, 6553, 13107, 26214, 19660, 6553, 13107, 26214,
    19660, 6553, 13107, 26214, 19660, 6553, 13107, 26214>>

CURVE_BT ==
  <<23971, 19311, 10958, 28404, 12118, 27178, 24605, 30799, 32032,
    22470, 14738, 21108, 22126, 28364, 30178, 12167, 26503>>

CURVE_B == <<CURVE_BX, CURVE_BY, FIELD_ONE, CURVE_BT>>
CURVE_ZERO == <<FIELD_ZERO, FIELD_ONE, FIELD_ONE, FIELD_ZERO>>

(* the group order *)
CURVE_L ==
  <<21485, 14827, 3177, 16531, 19813, 24307, 30632, 28540, 20,
    0, 0, 0, 0, 0, 0, 0, 4096>>

PointOf(e, f, g, h) == <<FieldMul(e, f), FieldMul(g, h), FieldMul(f, g), FieldMul(e, h)>>

PointSums(a, b, c, dd) ==
  CHOOSE r \in {PointOf(e, f, g, h) : e \in {FieldSub(b, a)}, f \in {FieldSub(dd, c)},
                                     g \in {FieldAdd(dd, c)}, h \in {FieldAdd(b, a)}} : TRUE

(* the sum of two points *)
PointAdd(P, Q) ==
  CHOOSE r \in {PointSums(a, b, c, dd) :
                 a \in {FieldMul(FieldSub(P[2], P[1]), FieldSub(Q[2], Q[1]))},
                 b \in {FieldMul(FieldAdd(P[2], P[1]), FieldAdd(Q[2], Q[1]))},
                 c \in {FieldMul(FieldMul(FieldAdd(P[4], P[4]), Q[4]), CURVE_D)},
                 dd \in {FieldMul(FieldAdd(P[3], P[3]), Q[3])}} : TRUE

PointNeg(P) == <<FieldNeg(P[1]), P[2], P[3], FieldNeg(P[4])>>

(* k times P: double and add over bits hi..lo of k, from the top *)
PointMulBit(k, P, Q, i) ==
  CHOOSE r \in {IF Bit(k, i) = 1 THEN PointAdd(Q2, P) ELSE Q2 : Q2 \in {PointAdd(Q, Q)}} : TRUE

RECURSIVE PointMulBits(_, _, _, _, _)
PointMulBits(k, P, Q, hi, lo) ==
  IF hi = lo THEN PointMulBit(k, P, Q, hi)
  ELSE CHOOSE r \in {PointMulBits(k, P, Q2, (hi + lo) \div 2, lo) :
                      Q2 \in {PointMulBits(k, P, Q, hi, ((hi + lo) \div 2) + 1)}} : TRUE

PointMul(k, P) == PointMulBits(k, P, CURVE_ZERO, 254, 0)

(* the 32 bytes of a point: y, little-endian, with the lowest bit of x in
   the top bit *)
PointBytes(x, y) ==
  Tuple([j \in 1..32 |-> BytesOfLimbs(y, 32)[j] + (IF j = 32 THEN 128 * (x[1] % 2) ELSE 0)])

PointScaled(P, zi) ==
  CHOOSE r \in {PointBytes(x, y) : x \in {FieldMul(P[1], zi)}, y \in {FieldMul(P[2], zi)}} : TRUE

PointEncode(P) == CHOOSE r \in {PointScaled(P, zi) : zi \in {FieldInv(P[3])}} : TRUE

(* the point of 32 bytes, or none: y is taken modulo p, x is the square
   root of (y^2 - 1) / (d y^2 + 1) whose lowest bit is the top bit *)
NoPoint == <<>>

PointWith(x, y, sign) ==
  CHOOSE r \in {<<x2, y, FIELD_ONE, FieldMul(x2, y)>> :
                 x2 \in {IF x[1] % 2 = sign THEN x ELSE FieldNeg(x)}} : TRUE

PointRoot2(x, xx, y, sign) ==
  IF FieldMul(x, x) = xx THEN PointWith(x, y, sign) ELSE NoPoint

PointRoot(x, xx, y, sign) ==
  IF FieldMul(x, x) = xx THEN PointWith(x, y, sign)
  ELSE CHOOSE r \in {PointRoot2(x2, xx, y, sign) : x2 \in {FieldMul(x, FIELD_SQRT_M1)}} : TRUE

PointOfSquare(xx, y, sign) ==
  CHOOSE r \in {PointRoot(x, xx, y, sign) : x \in {FieldPow(xx, FIELD_P_PLUS_3_DIV_8)}} : TRUE

PointOfYY(yy, y, sign) ==
  CHOOSE r \in {PointOfSquare(xx, y, sign) :
                 xx \in {FieldMul(FieldSub(yy, FIELD_ONE),
                                  FieldInv(FieldAdd(FieldMul(CURVE_D, yy), FIELD_ONE)))}} : TRUE

PointOfY(y, sign) == CHOOSE r \in {PointOfYY(yy, y, sign) : yy \in {FieldMul(y, y)}} : TRUE

PointDecode(b) ==
  CHOOSE r \in {PointOfY(y, b[32] \div 128) :
                 y \in {FieldCanonical(LimbsOfBytes([b EXCEPT ![32] = b[32] % 128], 17))}} : TRUE

---------------------------------------------------------------------------
(* Scalars modulo the group order L *)

(* L * 2^j for j = 0..14, 18 limbs each *)
CURVE_L_SHIFTED ==
  Tuple([j \in 1..15 |-> SubSeq(Carry([i \in 1..17 |-> CURVE_L[i] * POW2[j]]), 1, 18)])

(* L * 2^k in n limbs *)
ShiftedL(k, n) ==
  Tuple([i \in 1..n |-> LimbAt(CURVE_L_SHIFTED[(k % 15) + 1], i - (k \div 15))])

(* u - v when u >= v, else u: the carry out of u + (2^15n - 1 - v) + 1 tells *)
SubtractedIf(u, t) == IF t.carry = 1 THEN t.digits ELSE u

SubtractIfNotLess(u, v) ==
  SubtractedIf(u, CarryRange(Tuple([i \in 1..Len(u) |->
                                u[i] + (LIMB - 1 - v[i]) + (IF i = 1 THEN 1 ELSE 0)]),
                             1, Len(u), 0))

(* u with L * 2^k taken off where it fits, for k = hi down to lo *)
RECURSIVE ScalarReduceBits(_, _, _)
ScalarReduceBits(u, hi, lo) ==
  IF hi = lo THEN SubtractIfNotLess(u, ShiftedL(hi, Len(u)))
  ELSE CHOOSE r \in {ScalarReduceBits(u2, (hi + lo) \div 2, lo) :
                      u2 \in {ScalarReduceBits(u, hi, ((hi + lo) \div 2) + 1)}} : TRUE

(* u modulo L, in 17 limbs; u has at least 18 limbs *)
ScalarMod(u) == SubSeq(ScalarReduceBits(u, 15 * Len(u) - 253, 0), 1, 17)

(* (r + h * a) modulo L *)
ScalarMulAdd(r, h, a) ==
  ScalarMod(Carry(Tuple([i \in 1..35 |-> LimbAt(Product(h, a), i) + LimbAt(r, i)])))

(* the 64 bytes of a SHA-512 digest, little-endian, modulo L *)
ScalarOfHash(b) == ScalarMod(LimbsOfBytes(b, 35))

---------------------------------------------------------------------------
(* cryptography.hazmat.primitives.asymmetric.ed25519 (RFC 8032) *)

ED25519_KEY_SIZE == 32
ED25519_SIG_SIZE == 64

(* the secret scalar of a private key: the first half of its SHA-512
   digest with the lowest three bits and the top bit cleared and the second
   highest bit set *)
Clamp(b) ==
  Tuple([i \in 1..32 |-> IF i = 1 THEN b[1] - (b[1] % 8)
                   ELSE IF i = 32 THEN (b[32] % 64) + 64 ELSE b[i]])

SecretScalar(h) == LimbsOfBytes(Clamp(SubSeq(h, 1, 32)), 17)

(* private_key.public_key().public_bytes(Raw) computed *)
Ed25519PublicOf(private_bytes) ==
  PointEncode(PointMul(SecretScalar(Sha512Digest(private_bytes)), CURVE_B))

SignatureOf(R, S) == R \o BytesOfLimbs(S, 32)

SignWithR(a, A, r, R, m) ==
  SignatureOf(R, ScalarMulAdd(r, ScalarOfHash(Sha512Digest(R \o A \o m)), a))

SignWithNonce(a, A, r, m) ==
  CHOOSE sg \in {SignWithR(a, A, r, R, m) : R \in {PointEncode(PointMul(r, CURVE_B))}} : TRUE

SignExpanded(h, a, m) ==
  CHOOSE sg \in {SignWithNonce(a, A, r, m) :
                  A \in {PointEncode(PointMul(a, CURVE_B))},
                  r \in {ScalarOfHash(Sha512Digest(SubSeq(h, 33, 64) \o m))}} : TRUE

SignHashed(h, m) == CHOOSE sg \in {SignExpanded(h, a, m) : a \in {SecretScalar(h)}} : TRUE

(* private_key.sign(data) computed: R, then S = r + H(R, A, data) a *)
Ed25519SignatureOf(private_bytes, m) ==
  CHOOSE sg \in {SignHashed(h, m) : h \in {Sha512Digest(private_bytes)}} : TRUE

(* S, the second half of a signature, is below L *)
ScalarBelowL(S) ==
  /\ S[18] = 0
  /\ CarryRange(Tuple([i \in 1..17 |-> S[i] + (LIMB - 1 - CURVE_L[i]) + (IF i = 1 THEN 1 ELSE 0)]),
                1, 17, 0).carry = 0

VerifyPoint(A, sg, h) ==
  PointEncode(PointAdd(PointMul(LimbsOfBytes(SubSeq(sg, 33, 64), 17), CURVE_B),
                       PointMul(h, PointNeg(A)))) = SubSeq(sg, 1, 32)

VerifyDecoded(A, pub, sg, m) ==
  IF A = NoPoint THEN FALSE
  ELSE VerifyPoint(A, sg, ScalarOfHash(Sha512Digest(SubSeq(sg, 1, 32) \o pub \o m)))

(* public_key.verify(signature, data) computed: S below L, the key a point
   of the curve, and the bytes of S B - H(R, A, data) A those of R *)
Ed25519Verifies(pub, sg, m) ==
  /\ Len(pub) = ED25519_KEY_SIZE
  /\ Len(sg) = ED25519_SIG_SIZE
  /\ ScalarBelowL(LimbsOfBytes(SubSeq(sg, 33, 64), 18))
  /\ CHOOSE ok \in {VerifyDecoded(A, pub, sg, m) : A \in {PointDecode(pub)}} : TRUE

---------------------------------------------------------------------------
(* The keys and signatures of the model.  A key pair or a signature takes
   TLC seconds to compute, so those of the model are kept as tables of the
   values the definitions above give; any other is computed when asked
   for. *)

(* Ed25519PrivateKey.generate() and private_bytes(Raw): 32 bytes drawn by
   the generator; seed stands for the draw *)
Ed25519PrivateBytes(seed) ==
  Tuple([i \in 1..ED25519_KEY_SIZE |-> (37 * seed + 11 * i) % 256])

(* <<private key, Ed25519PublicOf(private key)>> *)
ED25519_KEYS ==
  <<<<<<48, 59, 70, 81, 92, 103, 114, 125, 136, 147, 158, 169, 180, 191,
      202, 213, 224, 235, 246, 1, 12, 23, 34, 45, 56, 67, 78, 89, 100, 111,
      122, 133>>,
      <<218, 1, 50, 9, 226, 42, 217, 210, 112, 14, 250, 82, 18, 222, 216,
      25, 195, 142, 15, 101, 26, 108, 213, 40, 19, 43, 153, 115, 32, 204,
      108, 32>>>>,
    <<<<85, 96, 107, 118, 129, 140, 151, 162, 173, 184, 195, 206, 217, 228,
      239, 250, 5, 16, 27, 38, 49, 60, 71, 82, 93, 104, 115, 126, 137, 148,
      159, 170>>,
      <<151, 60, 176, 100, 29, 246, 158, 120, 63, 119, 15, 11, 140, 116, 1,
      248, 209, 19, 187, 167, 129, 23, 47, 72, 217, 10, 198, 31, 235, 217,
      151, 135>>>>,
    <<<<122, 133, 144, 155, 166, 177, 188, 199, 210, 221, 232, 243, 254, 9,
      20, 31, 42, 53, 64, 75, 86, 97, 108, 119, 130, 141, 152, 163, 174,
      185, 196, 207>>,
      <<248, 46, 250, 102, 26, 222, 127, 35, 192, 13, 141, 47, 21, 137, 86,
      63, 143, 107, 123, 216, 182, 180, 31, 214, 188, 90, 179, 164, 91, 147,
      195, 249>>>>>>

(* <<k, m, Ed25519SignatureOf(ED25519_KEYS[k][1], m)>> *)
ED25519_SIGNATURES ==
  <<<<1,
      <<7, 116, 129, 59, 181, 71, 71, 94, 177, 99, 158, 23, 240, 167, 183,
      22, 252, 164, 168, 145, 54, 237, 169, 186, 191, 45, 184, 31, 241, 70,
      210, 164>>,
      <<241, 0, 64, 243, 35, 144, 85, 225, 61, 4, 0, 86, 104, 216, 190, 227,
      175, 96, 13, 96, 91, 138, 3, 86, 169, 191, 62, 145, 165, 206, 108,
      235, 202, 48, 143, 175, 160, 224, 25, 139, 113, 57, 187, 2, 170, 14,
      5, 167, 54, 95, 92, 118, 202, 155, 192, 164, 2, 78, 31, 121, 45, 45,
      227, 14>>>>,
    <<1,
      <<26, 59, 218, 203, 78, 114, 188, 121, 198, 89, 101, 145, 219, 176,
      167, 222, 9, 150, 61, 155, 176, 106, 19, 132, 249, 146, 170, 48, 88,
      70, 23, 113>>,
      <<174, 201, 66, 131, 92, 99, 54, 144, 227, 164, 117, 97, 233, 11, 44,
      248, 159, 76, 148, 53, 63, 141, 88, 121, 130, 156, 128, 105, 213, 227,
      157, 115, 237, 239, 33, 6, 99, 220, 44, 241, 157, 129, 5, 100, 249,
      70, 68, 187, 215, 249, 51, 95, 25, 65, 190, 96, 216, 56, 152, 22, 16,
      155, 143, 15>>>>,
    <<1,
      <<34, 93, 151, 235, 172, 64, 62, 125, 73, 126, 204, 36, 80, 102, 203,
      174, 182, 45, 67, 97, 111, 191, 3, 166, 123, 2, 58, 78, 99, 196, 240,
      121>>,
      <<7, 254, 221, 57, 252, 139, 248, 99, 11, 204, 31, 217, 95, 207, 173,
      48, 170, 83, 119, 213, 188, 98, 76, 97, 137, 251, 122, 6, 251, 180,
      169, 130, 229, 132, 127, 223, 85, 76, 162, 196, 89, 40, 86, 116, 239,
      155, 250, 108, 85, 74, 193, 133, 18, 238, 12, 18, 44, 239, 168, 124,
      90, 239, 2, 14>>>>,
    <<1,
      <<35, 174, 227, 47, 37, 118, 204, 114, 177, 176, 43, 92, 248, 2, 12,
      11, 61, 155, 252, 204, 58, 148, 20, 63, 98, 251, 34, 141, 216, 53, 5,
      59>>,
      <<124, 110, 192, 42, 79, 166, 53, 31, 43, 21, 177, 132, 51, 54, 58,
      81, 215, 97, 231, 188, 61, 169, 243, 7, 227, 117, 76, 65, 215, 142,
      96, 251, 248, 20, 214, 97, 62, 38, 17, 41, 246, 122, 131, 231, 32, 58,
      21, 242, 118, 23, 204, 64, 95, 49, 136, 25, 84, 13, 139, 240, 23, 253,
      183, 6>>>>,
    <<1,
      <<50, 103, 131, 64, 164, 131, 192, 152, 23, 109, 1, 105, 193, 156,
      177, 210, 165, 7, 82, 73, 125, 153, 200, 38, 238, 119, 206, 135, 240,
      38, 229, 178>>,
      <<102, 207, 219, 129, 132, 165, 73, 203, 14, 109, 207, 102, 117, 35,
      113, 195, 189, 38, 22, 255, 136, 224, 101, 172, 118, 250, 134, 189,
      95, 21, 146, 8, 134, 158, 76, 140, 230, 196, 141, 11, 45, 59, 179,
      138, 252, 192, 123, 148, 9, 100, 85, 76, 17, 77, 191, 140, 142, 218,
      60, 35, 213, 118, 167, 0>>>>,
    <<1,
      <<121, 156, 215, 14, 221, 113, 17, 254, 25, 135, 178, 2, 27, 122, 17,
      244, 76, 53, 175, 177, 55, 84, 119, 193, 76, 169, 184, 186, 78, 26,
      211, 11>>,
      <<212, 221, 203, 55, 197, 224, 4, 139, 36, 48, 210, 241, 249, 34, 147,
      229, 189, 136, 29, 68, 129, 131, 185, 64, 163, 115, 131, 80, 230, 254,
      88, 30, 79, 139, 1, 230, 169, 224, 107, 81, 216, 81, 125, 134, 121,
      128, 19, 56, 171, 71, 11, 253, 77, 71, 210, 96, 77, 60, 126, 156, 158,
      76, 187, 3>>>>,
    <<1,
      <<155, 41, 100, 19, 124, 27, 101, 116, 70, 49, 219, 138, 16, 179, 37,
      250, 86, 231, 207, 193, 145, 30, 199, 124, 10, 157, 165, 28, 86, 56,
      26, 160>>,
      <<132, 125, 159, 198, 180, 73, 203, 0, 151, 49, 157, 80, 79, 214, 162,
      95, 229, 143, 189, 20, 16, 203, 226, 161, 35, 217, 31, 177, 132, 133,
      19, 243, 120, 30, 158, 191, 158, 219, 251, 2, 97, 188, 190, 245, 11,
      85, 35, 188, 143, 178, 52, 102, 190, 179, 103, 99, 131, 130, 173, 1,
      81, 146, 105, 14>>>>,
    <<1,
      <<159, 44, 248, 255, 191, 68, 119, 161, 76, 187, 118, 82, 232, 206,
      247, 20, 61, 125, 6, 94, 145, 59, 189, 54, 174, 105, 64, 209, 164,
      199, 72, 0>>,
      <<36, 253, 222, 156, 10, 75, 151, 239, 249, 176, 15, 186, 27, 211,
      241, 222, 172, 55, 51, 23, 135, 174, 36, 91, 50, 59, 189, 18, 115, 77,
      48, 88, 6, 24, 29, 67, 181, 223, 251, 145, 138, 80, 245, 251, 221,
      230, 52, 72, 193, 145, 157, 35, 47, 237, 43, 75, 242, 31, 241, 225,
      47, 134, 187, 7>>>>,
    <<1,
      <<178, 238, 1, 213, 8, 247, 116, 149, 206, 9, 143, 162, 187, 155, 104,
      44, 116, 113, 165, 166, 121, 38, 85, 134, 208, 18, 189, 25, 80, 240,
      36, 73>>,
      <<117, 229, 17, 199, 253, 184, 28, 142, 130, 173, 169, 114, 115, 111,
      19, 58, 138, 228, 18, 80, 16, 16, 82, 99, 55, 239, 167, 17, 172, 209,
      95, 167, 23, 95, 129, 57, 85, 46, 178, 9, 242, 145, 248, 39, 2, 85,
      186, 171, 199, 199, 81, 214, 24, 249, 41, 25, 103, 232, 229, 116, 56,
      143, 4, 9>>>>,
    <<1,
      <<192, 97, 66, 181, 239, 112, 43, 190, 21, 84, 167, 72, 111, 152, 255,
      66, 59, 124, 76, 40, 241, 7, 94, 4, 54, 89, 13, 233, 209, 38, 88,
      229>>,
      <<102, 18, 160, 127, 73, 116, 104, 61, 49, 48, 195, 195, 163, 209, 44,
      23, 131, 103, 17, 74, 206, 116, 227, 77, 227, 122, 57, 85, 106, 221,
      156, 45, 206, 198, 161, 239, 12, 16, 229, 103, 196, 161, 32, 218, 16,
      246, 64, 136, 223, 12, 122, 63, 191, 168, 231, 194, 165, 78, 184, 215,
      192, 7, 47, 2>>>>,
    <<1,
      <<202, 25, 167, 103, 166, 116, 34, 112, 130, 20, 175, 200, 62, 159,
      173, 250, 189, 49, 82, 243, 166, 108, 23, 206, 17, 66, 147, 110, 68,
      107, 84, 179>>,
      <<59, 4, 211, 93, 185, 31, 113, 255, 207, 94, 118, 119, 47, 109, 160,
      124, 106, 105, 238, 43, 47, 249, 99, 77, 234, 195, 161, 242, 54, 136,
      45, 109, 67, 1, 200, 93, 165, 147, 191, 29, 22, 251, 18, 35, 52, 169,
      120, 86, 227, 222, 85, 153, 18, 110, 138, 233, 14, 136, 146, 238, 83,
      14, 228, 10>>>>,
    <<1,
      <<241, 54, 236, 12, 214, 197, 71, 15, 225, 24, 250, 131, 69, 70, 39,
      54, 230, 89, 129, 154, 104, 139, 92, 203, 135, 65, 254, 122, 35, 251,
      12, 66>>,
      <<154, 99, 60, 82, 202, 116, 73, 21, 0, 93, 90, 238, 160, 152, 10, 53,
      33, 113, 14, 122, 132, 166, 139, 213, 77, 219, 16, 111, 1, 249, 190,
      14, 104, 7, 152, 205, 65, 207, 190, 90, 28, 121, 54, 214, 83, 193, 57,
      211, 194, 223, 215, 198, 23, 161, 233, 142, 87, 191, 14, 148, 60, 151,
      34, 10>>>>,
    <<1,
      <<102, 49, 51, 54, 101, 99, 48, 99, 100, 54, 99, 53, 52, 55, 48, 102,
      101, 49, 49, 56, 102, 97, 56, 51, 52, 53, 52, 54, 50, 55, 51, 54, 101,
      54, 53, 57, 56, 49, 57, 97, 54, 56, 56, 98, 53, 99, 99, 98, 56, 55,
      52, 49, 102, 101, 55, 97, 50, 51, 102, 98, 48, 99, 52, 50>>,
      <<187, 85, 175, 210, 240, 33, 42, 204, 58, 31, 128, 57, 210, 95, 106,
      158, 85, 10, 41, 210, 1, 136, 159, 157, 60, 153, 129, 65, 69, 127,
      188, 147, 227, 230, 154, 217, 48, 8, 195, 228, 174, 134, 120, 133,
      128, 241, 249, 104, 74, 135, 27, 155, 219, 78, 112, 103, 84, 199, 37,
      117, 89, 74, 78, 11>>>>,
    <<2,
      <<7, 116, 129, 59, 181, 71, 71, 94, 177, 99, 158, 23, 240, 167, 183,
      22, 252, 164, 168, 145, 54, 237, 169, 186, 191, 45, 184, 31, 241, 70,
      210, 164>>,
      <<191, 102, 115, 46, 114, 47, 20, 50, 5, 223, 11, 69, 104, 37, 209,
      44, 45, 144, 226, 192, 134, 139, 203, 141, 169, 192, 58, 245, 74, 253,
      189, 103, 62, 67, 129, 138, 121, 55, 5, 63, 12, 83, 239, 89, 75, 96,
      36, 245, 246, 13, 10, 210, 151, 126, 60, 172, 142, 190, 7, 97, 1, 72,
      231, 6>>>>,
    <<2,
      <<26, 59, 218, 203, 78, 114, 188, 121, 198, 89, 101, 145, 219, 176,
      167, 222, 9, 150, 61, 155, 176, 106, 19, 132, 249, 146, 170, 48, 88,
      70, 23, 113>>,
      <<68, 240, 4, 67, 131, 232, 239, 0, 163, 23, 141, 49, 25, 22, 8, 24,
      20, 79, 192, 82, 107, 245, 211, 44, 90, 59, 78, 221, 2, 32, 73, 209,
      120, 73, 16, 28, 183, 203, 68, 244, 236, 37, 67, 238, 104, 240, 113,
      228, 255, 94, 69, 122, 71, 130, 250, 126, 24, 226, 41, 32, 197, 137,
      231, 2>>>>,
    <<2,
      <<34, 93, 151, 235, 172, 64, 62, 125, 73, 126, 204, 36, 80, 102, 203,
      174, 182, 45, 67, 97, 111, 191, 3, 166, 123, 2, 58, 78, 99, 196, 240,
      121>>,
      <<231, 6, 81, 136, 17, 186, 251, 91, 39, 247, 215, 232, 23, 111, 115,
      74, 255, 14, 24, 229, 65, 240, 201, 254, 17, 208, 165, 226, 29, 108,
      242, 136, 239, 37, 17, 165, 172, 35, 241, 131, 213, 101, 228, 61, 184,
      184, 149, 182, 112, 103, 157, 253, 254, 64, 187, 88, 236, 195, 205,
      155, 118, 66, 111, 8>>>>,
    <<2,
      <<35, 174, 227, 47, 37, 118, 204, 114, 177, 176, 43, 92, 248, 2, 12,
      11, 61, 155, 252, 204, 58, 148, 20, 63, 98, 251, 34, 141, 216, 53, 5,
      59>>,
      <<2, 46, 57, 151, 70, 71, 159, 51, 98, 127, 206, 203, 21, 243, 224,
      240, 35, 77, 89, 34, 252, 108, 251, 222, 136, 66, 232, 117, 120, 40,
      243, 69, 238, 219, 37, 95, 59, 33, 110, 129, 95, 45, 116, 30, 122, 89,
      119, 243, 63, 65, 64, 29, 199, 41, 57, 7, 88, 89, 169, 220, 49, 99,
      156, 8>>>>,
    <<2,
      <<50, 103, 131, 64, 164, 131, 192, 152, 23, 109, 1, 105, 193, 156,
      177, 210, 165, 7, 82, 73, 125, 153, 200, 38, 238, 119, 206, 135, 240,
      38, 229, 178>>,
      <<128, 46, 119, 199, 56, 207, 88, 66, 225, 98, 32, 206, 77, 64, 113,
      76, 124, 57, 37, 139, 28, 44, 112, 99, 215, 20, 251, 101, 90, 2, 135,
      216, 44, 221, 233, 11, 28, 114, 145, 40, 155, 27, 91, 61, 17, 105,
      149, 237, 210, 44, 161, 77, 127, 103, 195, 42, 51, 220, 89, 149, 243,
      127, 87, 12>>>>,
    <<2,
      <<121, 156, 215, 14, 221, 113, 17, 254, 25, 135, 178, 2, 27, 122, 17,
      244, 76, 53, 175, 177, 55, 84, 119, 193, 76, 169, 184, 186, 78, 26,
      211, 11>>,
      <<187, 143, 31, 101, 52, 52, 171, 123, 156, 37, 112, 208, 161, 50, 4,
      35, 177, 214, 98, 75, 3, 70, 192, 158, 47, 16, 205, 214, 95, 167, 74,
      100, 56, 10, 150, 219, 226, 100, 166, 152, 189, 87, 166, 18, 233, 192,
      222, 153, 159, 32, 34, 233, 241, 198, 138, 96, 226, 34, 235, 126, 46,
      182, 127, 14>>>>,
    <<2,
      <<155, 41, 100, 19, 124, 27, 101, 116, 70, 49, 219, 138, 16, 179, 37,
      250, 86, 231, 207, 193, 145, 30, 199, 124, 10, 157, 165, 28, 86, 56,
      26, 160>>,
      <<115, 247, 242, 96, 144, 131, 236, 1, 70, 207, 230, 25, 56, 190, 53,
      188, 31, 44, 235, 92, 14, 145, 129, 47, 18, 252, 187, 168, 144, 40,
      149, 209, 104, 150, 106, 114, 244, 52, 105, 82, 16, 71, 94, 61, 2, 53,
      56, 145, 239, 88, 236, 2, 140, 126, 213, 239, 14, 82, 138, 175, 220,
      97, 229, 2>>>>,
    <<2,
      <<159, 44, 248, 255, 191, 68, 119, 161, 76, 187, 118, 82, 232, 206,
      247, 20, 61, 125, 6, 94, 145, 59, 189, 54, 174, 105, 64, 209, 164,
      199, 72, 0>>,
      <<135, 140, 89, 254, 162, 177, 83, 158, 62, 147, 11, 216, 244, 137,
      241, 20, 76, 178, 47, 28, 11, 17, 126, 17, 16, 167, 44, 107, 225, 153,
      250, 113, 48, 31, 231, 222, 141, 85, 0, 248, 220, 49, 201, 95, 150,
      164, 193, 10, 102, 246, 245, 10, 229, 90, 46, 84, 249, 114, 199, 63,
      55, 92, 239, 14>>>>,
    <<2,
      <<178, 238, 1, 213, 8, 247, 116, 149, 206, 9, 143, 162, 187, 155, 104,
      44, 116, 113, 165, 166, 121, 38, 85, 134, 208, 18, 189, 25, 80, 240,
      36, 73>>,
      <<92, 151, 5, 170, 51, 43, 86, 70, 103, 155, 40, 237, 55, 232, 175,
      228, 152, 12, 35, 119, 239, 140, 69, 161, 171, 189, 116, 189, 98, 229,
      189, 43, 136, 71, 84, 221, 25, 170, 148, 152, 73, 225, 171, 121, 120,
      236, 113, 142, 216, 225, 94, 117, 77, 192, 122, 170, 4, 139, 141, 101,
      115, 21, 134, 4>>>>,
    <<2,
      <<192, 97, 66, 181, 239, 112, 43, 190, 21, 84, 167, 72, 111, 152, 255,
      66, 59, 124, 76, 40, 241, 7, 94, 4, 54, 89, 13, 233, 209, 38, 88,
      229>>,
      <<190, 92, 240, 45, 140, 57, 87, 36, 44, 17, 223, 225, 202, 231, 59,
      19, 25, 255, 90, 178, 244, 145, 15, 112, 105, 252, 145, 128, 154, 102,
      176, 44, 188, 51, 95, 9, 5, 124, 99, 198, 152, 181, 145, 110, 231,
      111, 40, 34, 238, 192, 166, 92, 160, 195, 157, 24, 198, 108, 190, 224,
      157, 13, 242, 7>>>>,
    <<2,
      <<202, 25, 167, 103, 166, 116, 34, 112, 130, 20, 175, 200, 62, 159,
      173, 250, 189, 49, 82, 243, 166, 108, 23, 206, 17, 66, 147, 110, 68,
      107, 84, 179>>,
      <<11, 171, 246, 195, 133, 56, 134, 102, 49, 190, 113, 211, 71, 247,
      65, 14, 56, 223, 74, 28, 38, 51, 212, 221, 45, 124, 13, 98, 192, 4,
      49, 120, 159, 187, 240, 127, 154, 42, 222, 194, 141, 231, 177, 1, 81,
      5, 104, 115, 167, 188, 137, 186, 21, 139, 235, 67, 74, 154, 11, 41,
      36, 38, 38, 3>>>>,
    <<2,
      <<241, 54, 236, 12, 214, 197, 71, 15, 225, 24, 250, 131, 69, 70, 39,
      54, 230, 89, 129, 154, 104, 139, 92, 203, 135, 65, 254, 122, 35, 251,
      12, 66>>,
      <<10, 97, 190, 255, 89, 115, 164, 139, 3, 223, 249, 148, 195, 240, 28,
      178, 217, 157, 160, 46, 189, 208, 166, 217, 61, 223, 70, 72, 133, 84,
      46, 82, 79, 9, 10, 172, 91, 213, 186, 223, 248, 149, 8, 175, 245, 19,
      11, 24, 103, 147, 209, 120, 149, 23, 140, 145, 194, 54, 211, 237, 205,
      101, 119, 6>>>>,
    <<2,
      <<102, 49, 51, 54, 101, 99, 48, 99, 100, 54, 99, 53, 52, 55, 48, 102,
      101, 49, 49, 56, 102, 97, 56, 51, 52, 53, 52, 54, 50, 55, 51, 54, 101,
      54, 53, 57, 56, 49, 57, 97, 54, 56, 56, 98, 53, 99, 99, 98, 56, 55,
      52, 49, 102, 101, 55, 97, 50, 51, 102, 98, 48, 99, 52, 50>>,
      <<12, 33, 82, 57, 126, 43, 119, 179, 119, 34, 74, 176, 6, 69, 67, 30,
      122, 103, 241, 247, 4, 0, 104, 148, 91, 149, 79, 174, 35, 148, 117,
      255, 227, 200, 217, 234, 144, 161, 238, 25, 32, 137, 13, 66, 3, 116,
      200, 192, 235, 180, 133, 14, 2, 242, 10, 46, 30, 107, 118, 23, 39,
      235, 245, 14>>>>,
    <<3,
      <<7, 116, 129, 59, 181, 71, 71, 94, 177, 99, 158, 23, 240, 167, 183,
      22, 252, 164, 168, 145, 54, 237, 169, 186, 191, 45, 184, 31, 241, 70,
      210, 164>>,
      <<10, 74, 4, 242, 146, 194, 173, 11, 59, 165, 139, 174, 248, 192, 47,
      56, 24, 85, 156, 91, 180, 3, 87, 110, 235, 90, 208, 146, 88, 171, 56,
      248, 12, 241, 126, 137, 164, 6, 147, 46, 46, 246, 14, 113, 38, 39, 64,
      227, 246, 127, 210, 30, 172, 105, 123, 155, 17, 7, 171, 92, 0, 227,
      234, 15>>>>,
    <<3,
      <<26, 59, 218, 203, 78, 114, 188, 121, 198, 89, 101, 145, 219, 176,
      167, 222, 9, 150, 61, 155, 176, 106, 19, 132, 249, 146, 170, 48, 88,
      70, 23, 113>>,
      <<118, 214, 244, 142, 112, 170, 43, 163, 245, 235, 124, 70, 171, 147,
      10, 151, 0, 12, 136, 37, 119, 219, 95, 157, 74, 222, 192, 226, 6, 157,
      143, 169, 24, 29, 190, 133, 31, 80, 150, 231, 32, 122, 87, 161, 183,
      120, 50, 129, 215, 67, 215, 246, 196, 203, 224, 82, 143, 244, 146, 43,
      235, 190, 59, 14>>>>,
    <<3,
      <<34, 93, 151, 235, 172, 64, 62, 125, 73, 126, 204, 36, 80, 102, 203,
      174, 182, 45, 67, 97, 111, 191, 3, 166, 123, 2, 58, 78, 99, 196, 240,
      121>>,
      <<118, 231, 55, 51, 81, 190, 161, 242, 130, 187, 89, 109, 95, 39, 73,
      9, 179, 145, 173, 90, 119, 97, 248, 248, 70, 85, 23, 93, 105, 203, 19,
      152, 71, 2, 5, 60, 0, 240, 251, 151, 174, 207, 148, 125, 195, 233, 2,
      59, 139, 113, 204, 82, 143, 245, 168, 195, 255, 99, 46, 11, 133, 180,
      200, 5>>>>,
    <<3,
      <<35, 174, 227, 47, 37, 118, 204, 114, 177, 176, 43, 92, 248, 2, 12,
      11, 61, 155, 252, 204, 58, 148, 20, 63, 98, 251, 34, 141, 216, 53, 5,
      59>>,
      <<66, 16, 146, 131, 190, 47, 162, 118, 9, 171, 246, 40, 223, 226, 166,
      187, 148, 218, 98, 205, 188, 235, 226, 186, 254, 150, 191, 84, 52, 65,
      199, 192, 144, 172, 178, 27, 31, 221, 179, 157, 236, 223, 135, 92,
      136, 90, 50, 145, 204, 11, 69, 29, 198, 105, 101, 37, 80, 252, 56,
      110, 16, 154, 44, 9>>>>,
    <<3,
      <<50, 103, 131, 64, 164, 131, 192, 152, 23, 109, 1, 105, 193, 156,
      177, 210, 165, 7, 82, 73, 125, 153, 200, 38, 238, 119, 206, 135, 240,
      38, 229, 178>>,
      <<172, 255, 237, 242, 95, 250, 235, 215, 150, 231, 23, 98, 199, 38,
      201, 179, 214, 238, 65, 172, 22, 46, 4, 178, 122, 216, 162, 168, 166,
      175, 146, 201, 87, 191, 245, 74, 223, 177, 240, 207, 137, 86, 206,
      161, 179, 49, 140, 67, 6, 145, 187, 154, 101, 22, 174, 222, 153, 241,
      160, 219, 38, 40, 155, 4>>>>,
    <<3,
      <<121, 156, 215, 14, 221, 113, 17, 254, 25, 135, 178, 2, 27, 122, 17,
      244, 76, 53, 175, 177, 55, 84, 119, 193, 76, 169, 184, 186, 78, 26,
      211, 11>>,
      <<106, 208, 148, 33, 27, 254, 155, 57, 14, 146, 78, 244, 199, 116,
      253, 126, 67, 118, 59, 144, 18, 38, 75, 115, 91, 198, 226, 153, 202,
      229, 53, 201, 101, 255, 155, 131, 75, 144, 0, 171, 64, 114, 51, 103,
      185, 149, 166, 5, 72, 205, 22, 156, 22, 251, 30, 163, 243, 137, 153,
      61, 199, 193, 108, 3>>>>,
    <<3,
      <<155, 41, 100, 19, 124, 27, 101, 116, 70, 49, 219, 138, 16, 179, 37,
      250, 86, 231, 207, 193, 145, 30, 199, 124, 10, 157, 165, 28, 86, 56,
      26, 160>>,
      <<113, 240, 136, 214, 164, 101, 135, 210, 110, 56, 67, 83, 74, 118,
      23, 198, 214, 216, 194, 45, 100, 43, 198, 147, 117, 39, 225, 209, 64,
      38, 89, 242, 113, 252, 107, 169, 41, 99, 245, 19, 76, 101, 99, 92,
      170, 75, 128, 137, 19, 39, 8, 242, 114, 104, 85, 108, 204, 248, 67,
      98, 47, 84, 48, 5>>>>,
    <<3,
      <<159, 44, 248, 255, 191, 68, 119, 161, 76, 187, 118, 82, 232, 206,
      247, 20, 61, 125, 6, 94, 145, 59, 189, 54, 174, 105, 64, 209, 164,
      199, 72, 0>>,
      <<199, 57, 17, 30, 72, 77, 144, 254, 100, 225, 35, 23, 94, 41, 138,
      119, 132, 44, 97, 41, 196, 37, 242, 240, 243, 145, 8, 179, 46, 213,
      67, 209, 252, 61, 241, 174, 186, 135, 8, 188, 70, 228, 62, 244, 64,
      86, 169, 11, 201, 61, 240, 173, 225, 223, 220, 89, 238, 247, 0, 156,
      184, 47, 225, 6>>>>,
    <<3,
      <<178, 238, 1, 213, 8, 247, 116, 149, 206, 9, 143, 162, 187, 155, 104,
      44, 116, 113, 165, 166, 121, 38, 85, 134, 208, 18, 189, 25, 80, 240,
      36, 73>>,
      <<68, 70, 215, 237, 165, 229, 55, 149, 118, 163, 42, 242, 250, 54,
      205, 89, 121, 8, 167, 15, 54, 142, 206, 106, 44, 56, 239, 173, 99,
      238, 81, 37, 4, 153, 56, 89, 85, 253, 59, 236, 32, 104, 229, 75, 198,
      231, 28, 87, 150, 92, 195, 93, 5, 37, 254, 130, 154, 210, 69, 181,
      184, 235, 155, 11>>>>,
    <<3,
      <<192, 97, 66, 181, 239, 112, 43, 190, 21, 84, 167, 72, 111, 152, 255,
      66, 59, 124, 76, 40, 241, 7, 94, 4, 54, 89, 13, 233, 209, 38, 88,
      229>>,
      <<113, 224, 250, 253, 231, 2, 16, 239, 109, 144, 80, 163, 113, 187,
      84, 241, 105, 135, 123, 252, 215, 177, 109, 22, 37, 63, 6, 89, 134,
      157, 210, 56, 91, 61, 174, 72, 217, 137, 177, 17, 188, 12, 108, 122,
      151, 199, 235, 222, 88, 198, 61, 254, 129, 72, 187, 206, 222, 35, 21,
      139, 30, 42, 201, 1>>>>,
    <<3,
      <<202, 25, 167, 103, 166, 116, 34, 112, 130, 20, 175, 200, 62, 159,
      173, 250, 189, 49, 82, 243, 166, 108, 23, 206, 17, 66, 147, 110, 68,
      107, 84, 179>>,
      <<163, 4, 108, 99, 134, 201, 252, 178, 96, 35, 237, 27, 163, 232, 37,
      67, 160, 103, 79, 2, 28, 111, 27, 222, 193, 244, 52, 214, 69, 134,
      120, 157, 149, 86, 6, 31, 51, 217, 66, 151, 116, 67, 15, 210, 230, 22,
      16, 43, 146, 24, 148, 187, 81, 190, 212, 156, 216, 124, 156, 39, 237,
      17, 106, 15>>>>,
    <<3,
      <<241, 54, 236, 12, 214, 197, 71, 15, 225, 24, 250, 131, 69, 70, 39,
      54, 230, 89, 129, 154, 104, 139, 92, 203, 135, 65, 254, 122, 35, 251,
      12, 66>>,
      <<254, 113, 247, 95, 46, 38, 157, 163, 38, 8, 220, 175, 197, 49, 211,
      175, 224, 228, 18, 190, 126, 235, 94, 153, 144, 231, 241, 37, 54, 59,
      12, 244, 207, 113, 252, 147, 1, 38, 254, 216, 65, 76, 43, 119, 69, 29,
      232, 134, 242, 207, 170, 43, 56, 179, 5, 11, 81, 123, 134, 97, 76, 25,
      23, 14>>>>,
    <<3,
      <<102, 49, 51, 54, 101, 99, 48, 99, 100, 54, 99, 53, 52, 55, 48, 102,
      101, 49, 49, 56, 102, 97, 56, 51, 52, 53, 52, 54, 50, 55, 51, 54, 101,
      54, 53, 57, 56, 49, 57, 97, 54, 56, 56, 98, 53, 99, 99, 98, 56, 55,
      52, 49, 102, 101, 55, 97, 50, 51, 102, 98, 48, 99, 52, 50>>,
      <<105, 55, 21, 253, 71, 59, 232, 235, 20, 78, 181, 95, 111, 124, 40,
      28, 32, 128, 2, 226, 240, 144, 41, 87, 226, 24, 154, 110, 42, 52, 92,
      12, 55, 245, 71, 87, 143, 137, 151, 156, 218, 251, 247, 7, 104, 78,
      147, 154, 251, 130, 200, 213, 60, 134, 36, 234, 243, 14, 78, 87, 195,
      127, 3, 13>>>>>>

ED25519_PUBLIC ==
  [p \in {ED25519_KEYS[k][1] : k \in 1..Len(ED25519_KEYS)} |->
     ED25519_KEYS[CHOOSE k \in 1..Len(ED25519_KEYS) : ED25519_KEYS[k][1] = p][2]]

ED25519_SIGNED ==
  [pm \in {<<ED25519_KEYS[ED25519_SIGNATURES[n][1]][1], ED25519_SIGNATURES[n][2]>> :
             n \in 1..Len(ED25519_SIGNATURES)} |->
     ED25519_SIGNATURES[CHOOSE n \in 1..Len(ED25519_SIGNATURES) :
                          /\ ED25519_KEYS[ED25519_SIGNATURES[n][1]][1] = pm[1]
                          /\ ED25519_SIGNATURES[n][2] = pm[2]][3]]

(* <<public key, signature, message>> of every signature of the table *)
ED25519_VERIFIED ==
  {<<ED25519_KEYS[ED25519_SIGNATURES[n][1]][2], ED25519_SIGNATURES[n][3],
     ED25519_SIGNATURES[n][2]>> : n \in 1..Len(ED25519_SIGNATURES)}

(* the byte strings a key or a signature of the tables can be edited to at
   its own length: one byte cut off and a zero byte put on *)
Refilled(b) == Extend(Truncate(b))

ED25519_KNOWN_PUBLIC ==
  {ED25519_KEYS[k][2] : k \in 1..Len(ED25519_KEYS)}
    \cup {Refilled(ED25519_KEYS[k][2]) : k \in 1..Len(ED25519_KEYS)}

ED25519_KNOWN_SIGNATURE ==
  {ED25519_SIGNATURES[n][3] : n \in 1..Len(ED25519_SIGNATURES)}
    \cup {Refilled(ED25519_SIGNATURES[n][3]) : n \in 1..Len(ED25519_SIGNATURES)}

(* the messages of the model: the digests of the values it hashes, as bytes
   and as hex text, and the messages of the table *)
ED25519_KNOWN_MESSAGE ==
  {SHA256_DIGESTS[d] : d \in SHA256_KNOWN}
    \cup {encode_utf8(Hex(SHA256_DIGESTS[d])) : d \in SHA256_KNOWN}
    \cup {ED25519_SIGNATURES[n][2] : n \in 1..Len(ED25519_SIGNATURES)}

(* private_key.public_key().public_bytes(Raw) *)
Ed25519PublicBytes(private_bytes) ==
  IF private_bytes \in DOMAIN ED25519_PUBLIC THEN ED25519_PUBLIC[private_bytes]
  ELSE Ed25519PublicOf(private_bytes)

(* Ed25519PrivateKey.from_private_bytes *)
from_private_bytes(data) ==
  IF Len(data) # ED25519_KEY_SIZE THEN Raise("ValueError") ELSE Ok(data)

(* Ed25519PublicKey.from_public_bytes *)
from_public_bytes(data) ==
  IF Len(data) # ED25519_KEY_SIZE THEN Raise("ValueError") ELSE Ok(data)

(* private_key.sign(data): 64 bytes *)
Ed25519Sign(private_key, data) ==
  IF <<private_key, data>> \in DOMAIN ED25519_SIGNED
  THEN ED25519_SIGNED[<<private_key, data>>]
  ELSE Ed25519SignatureOf(private_key, data)

(* whether a key, a signature and a message of the tables verify: a
   signature of the table verifies for the key and the message it was made
   with, and for no other key or message of the tables *)
Ed25519Known(public_key, sg, data) ==
  /\ public_key \in ED25519_KNOWN_PUBLIC
  /\ sg \in ED25519_KNOWN_SIGNATURE
  /\ data \in ED25519_KNOWN_MESSAGE

Ed25519Checks(public_key, sg, data) ==
  IF Ed25519Known(public_key, sg, data)
  THEN <<public_key, sg, data>> \in ED25519_VERIFIED
  ELSE Ed25519Verifies(public_key, sg, data)

(* public_key.verify(signature, data): returns, or raises InvalidSignature *)
Ed25519Verify(public_key, sg, data) ==
  IF Ed25519Checks(public_key, sg, data) THEN Ok(TRUE) ELSE Raise("InvalidSignature")

---------------------------------------------------------------------------
(* Files and JSON documents.  A JSON document is held as its structure
   (objects as item sequences in file order, arrays) with every scalar as
   the text written in the file: string bodies escaped, numbers as their
   digits, the literals true, false and null. *)

NoFile == [kind |-> "absent", doc |-> <<>>]
Garbage == [kind |-> "garbage", doc |-> <<>>]
FileDoc(d) == [kind |-> "json", doc |-> d]

JString(s) == [t |-> "string", v |-> s]
JNumber(s) == [t |-> "number", v |-> s]
JLiteral(s) == [t |-> "literal", v |-> s]
JObject(items) == [t |-> "object", v |-> items]
JArray(xs) == [t |-> "array", v |-> xs]

(* json.dump(obj, f, indent=2): keys stay in insertion order *)
RECURSIVE json_dump(_)
json_dump(obj) ==
  CASE obj.t = "str" -> JString(Escape(obj.v))
    [] obj.t = "int" -> JNumber(IntRepr(obj.v))
    [] obj.t = "float" -> JNumber(FloatRepr(obj.v))
    [] obj.t = "bool" -> JLiteral(json_dumps(obj))
    [] obj.t = "None" -> JLiteral(json_dumps(obj))
    [] obj.t = "nonfinite" -> JLiteral(json_dumps(obj))
    [] obj.t = "list" -> JArray([i \in 1..Len(obj.v) |-> json_dump(obj.v[i])])
    [] obj.t = "dict" ->
         JObject([i \in 1..Len(obj.v) |->
                    <<Escape(obj.v[i][1]), json_dump(obj.v[i][2])>>])

(* The decoder reading a string body (scanstring, strict).  A backslash
   that is not itself escaped starts an escape: one of the characters
   " \ / b f n r t, or u and four hexadecimal digits naming a code point. *)
IsEscaper(s, i) ==
  /\ s[i] = "\\"
  /\ LET before == {j \in 1..(i - 1) : s[j] # "\\"}
         start == IF before = {} THEN 0 ELSE CHOOSE j \in before : \A k \in before : k <= j
     IN (i - 1 - start) % 2 = 0

IsHexDigit(c) == Ord(c) \in (48..57) \cup (65..70) \cup (97..102)

HexValue(c) ==
  IF Ord(c) <= 57 THEN Ord(c) - 48
  ELSE IF Ord(c) <= 70 THEN Ord(c) - 55
  ELSE Ord(c) - 87

(* the character an escape stands for, given the position of its letter *)
Unescaped(s, i) ==
  CASE s[i] = "b" -> Chr(8)
    [] s[i] = "f" -> Chr(12)
    [] s[i] = "n" -> Chr(10)
    [] s[i] = "r" -> Chr(13)
    [] s[i] = "t" -> Chr(9)
    [] s[i] = "u" -> Chr(4096 * HexValue(s[i + 1]) + 256 * HexValue(s[i + 2])
                         + 16 * HexValue(s[i + 3]) + HexValue(s[i + 4]))
    [] OTHER -> s[i]

(* the escape starting at i is one the decoder knows *)
EscapeKnown(s, i) ==
  /\ i < Len(s)
  /\ s[i + 1] \in {"\"", "\\", "/", "b", "f", "n", "r", "t", "u"}
  /\ s[i + 1] = "u" =>
       /\ i + 5 <= Len(s)
       /\ \A k \in (i + 2)..(i + 5) : IsHexDigit(s[k])

(* the body is one the decoder reads to its end: no character below space,
   no quote that is not escaped, no escape it does not know *)
StringReads(s) ==
  \A i \in 1..Len(s) :
    /\ Ord(s[i]) >= 32
    /\ s[i] = "\"" => (i > 1 /\ IsEscaper(s, i - 1))
    /\ IsEscaper(s, i) => EscapeKnown(s, i)

(* what the character at i adds to the string read *)
UnescapeAt(s, i) ==
  IF IsEscaper(s, i) THEN <<>>
  ELSE IF i > 1 /\ IsEscaper(s, i - 1) THEN <<Unescaped(s, i)>>
  ELSE IF \E k \in 2..5 : i - k >= 1 /\ IsEscaper(s, i - k) /\ s[i - k + 1] = "u" THEN <<>>
  ELSE <<s[i]>>

RECURSIVE UnescapeRange(_, _, _)
UnescapeRange(s, lo, hi) ==
  IF lo > hi THEN <<>>
  ELSE IF lo = hi THEN UnescapeAt(s, lo)
  ELSE LET mid == (lo + hi) \div 2
       IN UnescapeRange(s, lo, mid) \o UnescapeRange(s, mid + 1, hi)

Unescape(s) == UnescapeRange(s, 1, Len(s))

(* int(s) of a text of digits *)
RECURSIVE ParseNat(_)
ParseNat(s) ==
  IF s = <<>> THEN 0
  ELSE 10 * ParseNat(SubSeq(s, 1, Len(s) - 1)) + (Ord(s[Len(s)]) - 48)

IsDigits(s) == s # <<>> /\ \A i \in 1..Len(s) : Ord(s[i]) \in 48..57

(* The parts of a number text (NUMBER_RE): the text without its sign, cut
   at the first e or E and at the first point before it. *)
Unsign(s) == IF s # <<>> /\ Head(s) = "-" THEN Tail(s) ELSE s

FirstOf(s, chars) ==
  Len(s) + 1 - Cardinality({i \in 1..Len(s) : \E j \in 1..i : s[j] \in chars})

Mantissa(s) == SubSeq(Unsign(s), 1, FirstOf(Unsign(s), {"e", "E"}) - 1)
ExponentText(s) == SubSeq(Unsign(s), FirstOf(Unsign(s), {"e", "E"}) + 1, Len(Unsign(s)))
IntegerText(s) == SubSeq(Mantissa(s), 1, FirstOf(Mantissa(s), {"."}) - 1)
FractionText(s) == SubSeq(Mantissa(s), FirstOf(Mantissa(s), {"."}) + 1, Len(Mantissa(s)))
HasFraction(s) == FirstOf(Mantissa(s), {"."}) <= Len(Mantissa(s))
HasExponent(s) == FirstOf(Unsign(s), {"e", "E"}) <= Len(Unsign(s))

UnsignExponent(e) == IF e # <<>> /\ Head(e) \in {"+", "-"} THEN Tail(e) ELSE e

(* the text is a number of JSON: an optional minus, digits that start with
   0 only when 0 is all of them, then optionally a point and digits, then
   optionally e or E, an optional sign and digits *)
NumberReads(s) ==
  /\ IsDigits(IntegerText(s))
  /\ Len(IntegerText(s)) = 1 \/ Head(IntegerText(s)) # "0"
  /\ HasFraction(s) => IsDigits(FractionText(s))
  /\ HasExponent(s) => IsDigits(UnsignExponent(ExponentText(s)))

(* the exponent of a number text; one of more than six digits is beyond
   every double whatever the mantissa and is held as six nines *)
ExponentDigits(e) ==
  SubSeq(UnsignExponent(e), LeadingZeros(UnsignExponent(e)) + 1, Len(UnsignExponent(e)))

ExponentSize(e) ==
  IF Len(ExponentDigits(e)) > 6 THEN 999999 ELSE ParseNat(ExponentDigits(e))

ExponentValue(e) ==
  IF e = <<>> THEN 0
  ELSE IF Head(e) = "-" THEN -ExponentSize(e)
  ELSE ExponentSize(e)

---------------------------------------------------------------------------
(* float(text) and float.__repr__.  float reads a decimal as the double
   nearest to it, the one with the even mantissa when two are as near, and
   float.__repr__ writes the shortest decimal that reads back as the double.
   A natural number of any size is held as its carried limbs, the least
   significant first. *)

NatTopZeros(u) ==
  CHOOSE k \in 0..Len(u) :
    /\ \A j \in 1..k : u[Len(u) + 1 - j] = 0
    /\ k = Len(u) \/ u[Len(u) - k] # 0

(* the limbs without the zero limbs at the top: none for zero *)
NatTrim(u) == SubSeq(u, 1, Len(u) - NatTopZeros(u))

NatWiden(u, n) == Tuple([i \in 1..n |-> LimbAt(u, i)])

NatMul(u, v) ==
  IF u = <<>> \/ v = <<>> THEN <<>> ELSE NatTrim(Carry(Product(u, v)))

NatAdd(u, v) ==
  IF u = <<>> THEN v
  ELSE IF v = <<>> THEN u
  ELSE NatTrim(Carry(Tuple([i \in 1..Max(Len(u), Len(v)) |-> LimbAt(u, i) + LimbAt(v, i)])))

(* u * 2^k in n limbs *)
NatShifted(u, k, n) ==
  Tuple([i \in 1..n |->
     ((LimbAt(u, i - (k \div 15)) * POW2[(k % 15) + 1]) % LIMB)
       + (LimbAt(u, i - (k \div 15) - 1) * POW2[(k % 15) + 1]) \div LIMB])

NatMulPow2(u, k) == NatTrim(NatShifted(u, k, Len(u) + (k \div 15) + 1))

(* u - v in the limbs of u, and a carry of 1 exactly when u >= v; u and v
   have the same number of limbs *)
NatDifference(u, v) ==
  CarryRange(Tuple([i \in 1..Len(u) |->
                      u[i] + (LIMB - 1 - v[i]) + (IF i = 1 THEN 1 ELSE 0)]),
             1, Len(u), 0)

NatLessEq(u, v) ==
  NatDifference(NatWiden(v, Max(1, Max(Len(u), Len(v)))),
                NatWiden(u, Max(1, Max(Len(u), Len(v))))).carry = 1

NatEq(u, v) == NatTrim(u) = NatTrim(v)

(* the number of bits of a number that is not zero *)
NatBits(u) == 15 * (Len(u) - 1) + Cardinality({j \in 1..15 : POW2[j] <= u[Len(u)]})

RECURSIVE NatPow10(_)
NatPow10(n) ==
  IF n = 0 THEN <<1>>
  ELSE IF n % 2 = 1 THEN CHOOSE r \in {NatMul(h, <<10>>) : h \in {NatPow10(n - 1)}} : TRUE
  ELSE CHOOSE r \in {NatMul(h, h) : h \in {NatPow10(n \div 2)}} : TRUE

(* u * 10^e for e >= 0, and u otherwise *)
NatMulPow10(u, e) == IF e > 0 THEN NatMul(u, NatPow10(e)) ELSE u

(* int(ds) of a text of decimal digits *)
RECURSIVE NatOfDigits(_)
NatOfDigits(ds) ==
  IF Len(ds) <= 4 THEN NatTrim(<<ParseNat(ds)>>)
  ELSE NatAdd(NatMulPow10(NatOfDigits(SubSeq(ds, 1, Len(ds) \div 2)),
                          Len(ds) - (Len(ds) \div 2)),
              NatOfDigits(SubSeq(ds, (Len(ds) \div 2) + 1, Len(ds))))

(* long division, bit by bit: s.r less the multiples v * 2^k that fit, k
   from hi down to lo, and the bits k taken set in s.q *)
NatDivTake(s, k, c) ==
  IF c.carry = 1
  THEN [r |-> c.digits,
        q |-> [s.q EXCEPT ![(k \div 15) + 1] = @ + POW2[(k % 15) + 1]]]
  ELSE s

NatDivStep(s, v, k) ==
  CHOOSE r \in {NatDivTake(s, k, c) :
                  c \in {NatDifference(s.r, NatShifted(v, k, Len(s.r)))}} : TRUE

RECURSIVE NatDivBits(_, _, _, _)
NatDivBits(s, v, hi, lo) ==
  IF hi = lo THEN NatDivStep(s, v, hi)
  ELSE CHOOSE r \in {NatDivBits(s2, v, (hi + lo) \div 2, lo) :
                      s2 \in {NatDivBits(s, v, hi, ((hi + lo) \div 2) + 1)}} : TRUE

(* quotient q and remainder r of u by v, for u < v * 2^bits *)
NatDivMod(u, v, bits) ==
  NatDivBits([r |-> NatWiden(u, Max(Len(u), Len(v) + (bits \div 15) + 1)),
              q |-> Tuple([i \in 1..((bits \div 15) + 1) |-> 0])],
             v, bits - 1, 0)

(* A double that is not zero is mant * 2^exp: mant from 2^52 to 2^53 - 1
   and exp from -1074 to 971, or mant below 2^52 and exp = -1074. *)
FLOAT_MANT_BITS == 53
FLOAT_MIN_EXP == -1074
FLOAT_MAX_EXP == 971

Double(mant, exp) == [mant |-> mant, exp |-> exp]

(* the quotient rounded to the nearest, to the even when the remainder is
   half of the divisor *)
DoubleRoundUp(s, v) ==
  \/ ~NatLessEq(NatMulPow2(s.r, 1), v)
  \/ NatEq(NatMulPow2(s.r, 1), v) /\ s.q[1] % 2 = 1

DoubleNormal(mant, exp) ==
  IF NatBits(mant) > FLOAT_MANT_BITS THEN Double(NatTrim(NatDivMod(mant, <<2>>, FLOAT_MANT_BITS).q), exp + 1)
  ELSE Double(mant, exp)

DoubleRounded(s, v, exp) ==
  IF DoubleRoundUp(s, v)
  THEN CHOOSE r \in {IF m = <<>> THEN Double(m, exp) ELSE DoubleNormal(m, exp) :
                       m \in {NatAdd(s.q, <<1>>)}} : TRUE
  ELSE Double(NatTrim(s.q), exp)

(* n / m as a double, given the exponent *)
DoubleAt(n, m, exp) ==
  CHOOSE r \in UNION {{DoubleRounded(s, v, exp) :
                          s \in {NatDivMod(IF exp < 0 THEN NatMulPow2(n, -exp) ELSE n, v,
                                           FLOAT_MANT_BITS)}} :
                        v \in {IF exp > 0 THEN NatMulPow2(m, exp) ELSE m}} : TRUE

(* whether n / m >= 2^k *)
RatioReaches(n, m, k) ==
  IF k >= 0 THEN NatLessEq(NatMulPow2(m, k), n) ELSE NatLessEq(m, NatMulPow2(n, -k))

(* the exponent of the double nearest to n / m, given bits(n) - bits(m) *)
DoubleExp(n, m, b) ==
  Max((IF RatioReaches(n, m, b) THEN b ELSE b - 1) - (FLOAT_MANT_BITS - 1), FLOAT_MIN_EXP)

DoubleOfRatio(n, m) ==
  CHOOSE r \in {DoubleAt(n, m, exp) : exp \in {DoubleExp(n, m, NatBits(n) - NatBits(m))}} : TRUE

(* the double nearest to c * 10^e, c not zero; beyond the largest double
   its exponent is above FLOAT_MAX_EXP *)
DoubleOf(c, e) ==
  CHOOSE r \in {DoubleOfRatio(n, m) :
                  n \in {NatMulPow10(c, e)},
                  m \in {NatMulPow10(<<1>>, -e)}} : TRUE

(* u \div d and u % d for a small d *)
RECURSIVE NatDivSmallFrom(_, _, _, _)
NatDivSmallFrom(u, d, i, rem) ==
  IF i = 0 THEN [q |-> <<>>, r |-> rem]
  ELSE CHOOSE r \in {[q |-> Append(rest.q, ((rem * LIMB) + u[i]) \div d), r |-> rest.r] :
                       rest \in {NatDivSmallFrom(u, d, i - 1, ((rem * LIMB) + u[i]) % d)}} : TRUE

NatDivSmall(u, d) == NatDivSmallFrom(u, d, Len(u), 0)

(* str(u) *)
RECURSIVE NatDigits(_)
NatDigits(u) ==
  IF u = <<>> THEN <<>>
  ELSE CHOOSE r \in {NatDigits(NatTrim(s.q)) \o <<Chr(48 + s.r)>> :
                       s \in {NatDivSmall(u, 10)}} : TRUE

(* whether x >= 10^j, for x = xa / xb *)
ReachesPow10(xa, xb, j) ==
  IF j >= 0 THEN NatLessEq(NatMulPow10(xb, j), xa) ELSE NatLessEq(xb, NatMulPow10(xa, -j))

(* the place of the point of x: the p with 10^(p-1) <= x < 10^p; x has
   bits binary digits before its point *)
DecimalPointOf(xa, xb, bits) ==
  1 + CHOOSE j \in {(((bits - 1) * 30103) \div 100000) + i : i \in {-1, 0, 1}} :
        ReachesPow10(xa, xb, j) /\ ~ReachesPow10(xa, xb, j + 1)

(* the decimals c * 10^t and (c + 1) * 10^t on either side of x, c = s.q the
   quotient of x by 10^t and s.r the remainder over v: the one that reads
   back as x, the nearer to x when both do, and none when neither does *)
NoDecimal == [digits |-> <<>>, point |-> 0]

DecimalAt(c, t) ==
  CHOOSE r \in {[digits |-> ds, point |-> Len(ds) + t] : ds \in {NatDigits(c)}} : TRUE

DecimalBetween(x, s, v, c, t) ==
  IF s.r = NatWiden(<<>>, Len(s.r)) THEN DecimalAt(c, t)
  ELSE CHOOSE r \in {IF lo /\ hi
                     THEN (IF NatLessEq(NatMulPow2(s.r, 1), v) THEN DecimalAt(c, t)
                           ELSE DecimalAt(NatAdd(c, <<1>>), t))
                     ELSE IF lo THEN DecimalAt(c, t)
                     ELSE IF hi THEN DecimalAt(NatAdd(c, <<1>>), t)
                     ELSE NoDecimal :
                       lo \in {c # <<>> /\ DoubleOf(c, t) = x},
                       hi \in {DoubleOf(NatAdd(c, <<1>>), t) = x}} : TRUE

DecimalNear(x, xa, xb, t) ==
  CHOOSE r \in UNION {{DecimalBetween(x, s, v, NatTrim(s.q), t) :
                          s \in {NatDivMod(NatMulPow10(xa, -t), v, 57)}} :
                        v \in {NatMulPow10(xb, t)}} : TRUE

(* the shortest decimal that reads back as x, of k digits or more *)
RECURSIVE ShortestFrom(_, _, _, _, _)
ShortestFrom(x, xa, xb, p, k) ==
  CHOOSE r \in {IF d.digits # <<>> THEN d ELSE ShortestFrom(x, xa, xb, p, k + 1) :
                  d \in {DecimalNear(x, xa, xb, p - k)}} : TRUE

ShortestAt(x, xa, xb) ==
  CHOOSE r \in {ShortestFrom(x, xa, xb, p, 1) :
                  p \in {DecimalPointOf(xa, xb, NatBits(x.mant) + x.exp)}} : TRUE

(* float.__repr__ of a double that is not zero, as digits and point *)
Shortest(x) ==
  ShortestAt(x, IF x.exp > 0 THEN NatMulPow2(x.mant, x.exp) ELSE x.mant,
             IF x.exp < 0 THEN NatMulPow2(<<1>>, -x.exp) ELSE <<1>>)

(* sys.float_info: every decimal of at most dig digits reads as a double
   of its own, and 10^min_10_exp and 10^max_10_exp are the least and the
   largest power of ten in the range of the normal doubles *)
FLOAT_DIG == 15
FLOAT_MIN_10_EXP == -307
FLOAT_MAX_10_EXP == 308

(* 10^-324 is below half of the least double, 2^-1075 *)
FLOAT_ZERO_10_EXP == -324

FloatZero(neg) == [t |-> "float", v |-> [neg |-> neg, digits |-> <<>>, point |-> 0]]
FloatInfinity(neg) == PyNonFinite(IF neg THEN <<"-">> \o INFINITY ELSE INFINITY)

FloatOfDouble(neg, x) ==
  IF x.mant = <<>> THEN FloatZero(neg)
  ELSE IF x.exp > FLOAT_MAX_EXP THEN FloatInfinity(neg)
  ELSE CHOOSE r \in {[t |-> "float", v |-> Decimal(neg, s.digits, s.point)] :
                       s \in {Shortest(x)}} : TRUE

(* float(text) of a decimal 0.d1..dn x 10^point, which is from
   10^(point - 1) up to 10^point.  A decimal of at most 15 digits in the
   range of the normal doubles is itself the shortest decimal of the double
   nearest to it; one above the largest power of ten is infinity and one
   below 10^-324 is zero; any other is rounded to the nearest double. *)
FloatOf(d) ==
  IF d.digits = <<>> THEN [t |-> "float", v |-> d]
  ELSE IF /\ Len(d.digits) <= FLOAT_DIG
          /\ d.point - 1 >= FLOAT_MIN_10_EXP
          /\ d.point <= FLOAT_MAX_10_EXP
  THEN [t |-> "float", v |-> d]
  ELSE IF d.point - 1 > FLOAT_MAX_10_EXP THEN FloatInfinity(d.neg)
  ELSE IF d.point <= FLOAT_ZERO_10_EXP THEN FloatZero(d.neg)
  ELSE CHOOSE r \in {FloatOfDouble(d.neg, x) :
                       x \in {DoubleOf(NatOfDigits(d.digits), d.point - Len(d.digits))}} : TRUE

---------------------------------------------------------------------------
(* json.loads: the number texts *)

(* the number text of a file: an int when it has neither fraction nor
   exponent, and a float otherwise *)
ParseNumber(s) ==
  IF ~HasFraction(s) /\ ~HasExponent(s)
  THEN PyInt(IF Head(s) = "-" THEN -ParseNat(Unsign(s)) ELSE ParseNat(s))
  ELSE FloatOf(Decimal(Head(s) = "-",
                       IntegerText(s) \o (IF HasFraction(s) THEN FractionText(s) ELSE <<>>),
                       Len(IntegerText(s)) + ExponentValue(ExponentText(s))))

(* dict built item by item: a repeated key keeps its first place and takes
   the last value *)
RECURSIVE DictFromItems(_)
DictFromItems(items) ==
  IF items = <<>> THEN <<>>
  ELSE LET init == DictFromItems(SubSeq(items, 1, Len(items) - 1))
           last == items[Len(items)]
       IN IF \E i \in 1..Len(init) : init[i][1] = last[1]
          THEN [i \in 1..Len(init) |-> IF init[i][1] = last[1] THEN last ELSE init[i]]
          ELSE Append(init, last)

(* the document is one the decoder reads to its end *)
RECURSIVE DocReads(_)
DocReads(doc) ==
  CASE doc.t = "string" -> StringReads(doc.v)
    [] doc.t = "number" -> NumberReads(doc.v)
    [] doc.t = "literal" ->
         doc.v \in {<<"t", "r", "u", "e">>, <<"f", "a", "l", "s", "e">>,
                    <<"n", "u", "l", "l">>} \cup NonFiniteTexts
    [] doc.t = "array" -> \A i \in 1..Len(doc.v) : DocReads(doc.v[i])
    [] doc.t = "object" ->
         \A i \in 1..Len(doc.v) : StringReads(doc.v[i][1]) /\ DocReads(doc.v[i][2])

(* json.load on a document the decoder reads *)
RECURSIVE json_loads(_)
json_loads(doc) ==
  CASE doc.t = "string" -> PyStr(Unescape(doc.v))
    [] doc.t = "number" -> ParseNumber(doc.v)
    [] doc.t = "literal" ->
         IF doc.v = <<"t", "r", "u", "e">> THEN PyBool(TRUE)
         ELSE IF doc.v = <<"f", "a", "l", "s", "e">> THEN PyBool(FALSE)
         ELSE IF doc.v \in NonFiniteTexts THEN PyNonFinite(doc.v)
         ELSE PyNone
    [] doc.t = "array" -> PyList([i \in 1..Len(doc.v) |-> json_loads(doc.v[i])])
    [] doc.t = "object" ->
         PyDict(DictFromItems([i \in 1..Len(doc.v) |->
                                 <<Unescape(doc.v[i][1]), json_loads(doc.v[i][2])>>]))

(* with open(filename, r) as f: json.load(f) *)
json_load(file) ==
  IF file.kind = "absent" THEN Raise("FileNotFoundError")
  ELSE IF file.kind = "garbage" THEN Raise("JSONDecodeError")
  ELSE IF ~DocReads(file.doc) THEN Raise("JSONDecodeError")
  ELSE Ok(json_loads(file.doc))

(* base64.b64decode(x) of a loaded value: TypeError unless it is text *)
b64decode_value(x) ==
  IF x.t # "str" THEN Raise("TypeError") ELSE b64decode(x.v)

---------------------------------------------------------------------------
(* demo.py *)

K_private_key == <<"p", "r", "i", "v", "a", "t", "e", "_", "k", "e", "y">>
K_public_key == <<"p", "u", "b", "l", "i", "c", "_", "k", "e", "y">>
K_data == <<"d", "a", "t", "a">>
K_signature == <<"s", "i", "g", "n", "a", "t", "u", "r", "e">>

Keypair(private_bytes, public_bytes) ==
  [private_key |-> private_bytes, public_key |-> public_bytes]

generate_keypair(seed) ==
  LET private_bytes == Ed25519PrivateBytes(seed)
      public_bytes == Ed25519PublicBytes(private_bytes)
  IN Keypair(private_bytes, public_bytes)

(* as if the two keys were written under each other's field name *)
save_keypair_swapped(keypair) ==
  FileDoc(json_dump(PyDict(
    << <<K_private_key, PyStr(b64encode(keypair.public_key))>>,
       <<K_public_key, PyStr(b64encode(keypair.private_key))>> >>)))

(* the content save_keypair writes *)
save_keypair(keypair) ==
  LET encoded_keypair ==
        PyDict(<< <<K_private_key, PyStr(b64encode(keypair.private_key))>>,
                  <<K_public_key, PyStr(b64encode(keypair.public_key))>> >>)
  IN FileDoc(json_dump(encoded_keypair))

(* base64.b64decode(obj[k]): the bytes, or the first error raised *)
DecodeItem(item) == IF ~item.ok THEN item ELSE b64decode_value(item.val)
DecodedField(obj, k) == DecodeItem(GetItem(obj, k))

KeypairOf(priv, pub) ==
  IF ~priv.ok THEN priv
  ELSE IF ~pub.ok THEN pub
  ELSE Ok(Keypair(priv.val, pub.val))

DecodeKeypair(loaded) ==
  IF ~loaded.ok THEN loaded
  ELSE KeypairOf(DecodedField(loaded.val, K_private_key),
                 DecodedField(loaded.val, K_public_key))

load_keypair(file) == DecodeKeypair(json_load(file))

(* as if the hex text of the digest were signed instead of the digest *)
sign_data_hexdigest(data_hash, private_key_bytes) ==
  IF Len(private_key_bytes) # ED25519_KEY_SIZE THEN Raise("ValueError")
  ELSE Ok(Ed25519Sign(private_key_bytes, encode_utf8(Hex(data_hash))))

SignWith(private_key, data_hash) ==
  IF ~private_key.ok THEN private_key
  ELSE Ok(Ed25519Sign(private_key.val, data_hash))

sign_data(data_hash, private_key_bytes) ==
  SignWith(from_private_bytes(private_key_bytes), data_hash)

(* as if the except branch returned True as well *)
TryVerifyAlwaysTrue(public_key, signature, data_hash) == Ok(TRUE)

(* lines 92-96: the try block around public_key.verify *)
TryVerify(public_key, signature, data_hash) ==
  IF Ed25519Verify(public_key, signature, data_hash).ok THEN Ok(TRUE) ELSE Ok(FALSE)

(* line 91 is outside the try block: its ValueError is not caught *)
VerifyWith(public_key, signature, data_hash) ==
  IF ~public_key.ok THEN public_key
  ELSE TryVerify(public_key.val, signature, data_hash)

verify_signature(data_hash, signature, public_key_bytes) ==
  VerifyWith(from_public_bytes(public_key_bytes), signature, data_hash)

load_sentiment_data(file) == json_load(file)

(* as if the record were written as its JSON text, encoded a second time *)
save_signed_data_as_text(sentiment_data, signature, public_key) ==
  FileDoc(json_dump(PyDict(
    << <<K_data, PyStr(json_dumps(sentiment_data))>>,
       <<K_signature, PyStr(b64encode(signature))>>,
       <<K_public_key, PyStr(b64encode(public_key))>> >>)))

(* the content save_signed_data writes *)
save_signed_data(sentiment_data, signature, public_key) ==
  LET signed_data ==
        PyDict(<< <<K_data, sentiment_data>>,
                  <<K_signature, PyStr(b64encode(signature))>>,
                  <<K_public_key, PyStr(b64encode(public_key))>> >>)
  IN FileDoc(json_dump(signed_data))

(* the three components verify_signed_data extracts, or the first error *)
EnvelopeOf(data, sig, pub) ==
  IF ~data.ok THEN data
  ELSE IF ~sig.ok THEN sig
  ELSE IF ~pub.ok THEN pub
  ELSE Ok([sentiment_data |-> data.val, signature |-> sig.val, public_key |-> pub.val])

ExtractEnvelope(loaded) ==
  IF ~loaded.ok THEN loaded
  ELSE EnvelopeOf(GetItem(loaded.val, K_data),
                  DecodedField(loaded.val, K_signature),
                  DecodedField(loaded.val, K_public_key))

LoadEnvelope(file) == ExtractEnvelope(json_load(file))

VerifyEnvelope(env) ==
  IF ~env.ok THEN env
  ELSE verify_signature(hash_sentiment_data(env.val.sentiment_data),
                        env.val.signature, env.val.public_key)

verify_signed_data(file) == VerifyEnvelope(LoadEnvelope(file))

---------------------------------------------------------------------------
(* verify_tampering.py *)

(* as if the text of the hex digest were returned in place of the digest *)
vt_hash_hexdigest(sentiment_data) ==
  encode_utf8(Hex(sha256(encode_utf8(json_dumps(sentiment_data)))))

vt_hash_sentiment_data(sentiment_data) ==
  sha256(encode_utf8(json_dumps(sentiment_data)))

(* lines 41-47: from_public_bytes outside the try block, verify inside it *)
vt_VerifyWith(public_key_obj, signature, data_hash) ==
  IF ~public_key_obj.ok THEN public_key_obj
  ELSE IF Ed25519Verify(public_key_obj.val, signature, data_hash).ok THEN Ok(TRUE)
  ELSE Ok(FALSE)

vt_VerifyEnvelope(env) ==
  IF ~env.ok THEN env
  ELSE vt_VerifyWith(from_public_bytes(env.val.public_key), env.val.signature,
                     vt_hash_sentiment_data(env.val.sentiment_data))

vt_verify_signed_data(file) == vt_VerifyEnvelope(LoadEnvelope(file))

---------------------------------------------------------------------------
(* compare_hashes.py *)

(* hashlib.sha256(data).hexdigest() through hash_data *)
hash_data(data) == Hex(sha256(encode_utf8(json_dumps(data))))

load_json(file) == json_load(file)

(* one try block of main: load the file, hash its data, read its label *)
LabelChecked(data, label) ==
  IF ~label.ok THEN label ELSE Ok([data |-> data, hash |-> hash_data(data)])

DataChecked(data) ==
  IF ~data.ok THEN data ELSE LabelChecked(data.val, GetItem(data.val, K_label))

LoadChecked(loaded) ==
  IF ~loaded.ok THEN loaded ELSE DataChecked(GetItem(loaded.val, K_data))

LoadForCompare(file) == LoadChecked(load_json(file))

(* the loop of main over the keys of the original, in their order: the
   changes printed so far, and whether a lookup in the tampered data raised *)
RECURSIVE ChangesDetected(_, _, _)
ChangeAt(key, o, t) == IF PyEq(o, t) THEN <<>> ELSE << <<key, o, t>> >>

ChangesAfter(here, rest) == [changes |-> here \o rest.changes, exc |-> rest.exc]

ChangesFrom(keys, original, tampered, t) ==
  IF ~t.ok THEN [changes |-> <<>>, exc |-> t.exc]
  ELSE ChangesAfter(ChangeAt(Head(keys), GetItem(original, Head(keys)).val, t.val),
                    ChangesDetected(Tail(keys), original, tampered))

ChangesDetected(keys, original, tampered) ==
  IF keys = <<>> THEN [changes |-> <<>>, exc |-> "none"]
  ELSE ChangesFrom(keys, original, tampered, GetItem(tampered, Head(keys)))

(* compare_hashes.main: what it prints and how the process ends *)
CompareOutput(result, exit, hashes_match, changes) ==
  [prog |-> "compare", result |-> result, exit |-> exit,
   report |-> [hashes_match |-> hashes_match, changes |-> changes]]

CompareLoop(hashes_match, loop) ==
  IF loop.exc # "none" THEN CompareOutput(loop.exc, 1, hashes_match, loop.changes)
  ELSE CompareOutput("conclusion", 0, hashes_match, loop.changes)

CompareLoaded(original, tampered) ==
  IF ~original.ok THEN CompareOutput("error_loading_original", 0, FALSE, <<>>)
  ELSE IF ~tampered.ok THEN CompareOutput("error_loading_tampered", 0, FALSE, <<>>)
  ELSE CompareLoop(original.val.hash = tampered.val.hash,
                   ChangesDetected(Keys(original.val.data), original.val.data,
                                   tampered.val.data))

compare_main(original_file, tampered_file) ==
  CompareLoaded(LoadForCompare(original_file), LoadForCompare(tampered_file))

---------------------------------------------------------------------------
(* State *)

VARIABLES
  fs_keypair,      (* oracle_keypair.json *)
  fs_sentiment,    (* sample_sentiment.json *)
  fs_signed,       (* signed_sentiment.json *)
  fs_original,     (* signed_sentiment_original.json *)
  pc,              (* where demo.main stands; idle when it is not running *)
  keypair,         (* locals of demo.main *)
  sentiment_data,
  data_hash,
  signature,
  is_valid,
  stdout,          (* what the last program run on the files as they are now
                      printed, and its exit code; nothing once a program
                      starts or a file is edited *)
  edits,           (* edits made so far from outside the programs *)
  gt_pc,           (* twitter_scraper.get_tweets: off, loop, returned *)
  gt_query,        (* its arguments *)
  gt_limit,
  gt_source,       (* index of the source the loop stands at *)
  gt_tweets,       (* its local list *)
  gt_result,       (* what it returned *)
  as_pc,           (* sentiment_analyzer.analyze_sentiment: off, loop, returned *)
  as_tweets,       (* its argument *)
  as_i,            (* the loop variable i *)
  as_results       (* its local list, returned at the end *)

files == <<fs_keypair, fs_sentiment, fs_signed, fs_original>>
locals == <<keypair, sentiment_data, data_hash, signature, is_valid>>
analyzer_vars == <<as_pc, as_tweets, as_i, as_results>>
oracle_vars == <<fs_keypair, fs_sentiment, fs_signed, fs_original, pc, keypair,
                 sentiment_data, data_hash, signature, is_valid, stdout, edits>>
scraper_vars == <<gt_pc, gt_query, gt_limit, gt_source, gt_tweets, gt_result>>
vars == <<fs_keypair, fs_sentiment, fs_signed, fs_original, pc, keypair,
          sentiment_data, data_hash, signature, is_valid, stdout, edits,
          scraper_vars, analyzer_vars>>

Unset == <<>>
NoOutput == [prog |-> "none", result |-> "none", exit |-> 0]

(* get_tweets is not running *)
ScraperOff ==
  /\ gt_pc = "off"
  /\ gt_query = Unset
  /\ gt_limit = 0
  /\ gt_source = 0
  /\ gt_tweets = <<>>
  /\ gt_result = <<>>

(* the oracle programs before their first run *)
OracleInit(records) ==
  /\ fs_keypair = NoFile
  /\ fs_sentiment \in {FileDoc(json_dump(r)) : r \in records}
  /\ fs_signed = NoFile
  /\ fs_original = NoFile
  /\ pc = "idle"
  /\ keypair = Unset
  /\ sentiment_data = Unset
  /\ data_hash = Unset
  /\ signature = Unset
  /\ is_valid = Unset
  /\ stdout = NoOutput
  /\ edits = 0

(* analyze_sentiment is not running *)
AnalyzerOff ==
  /\ as_pc = "off"
  /\ as_tweets = <<>>
  /\ as_i = 0
  /\ as_results = <<>>

InitWith(records) ==
  /\ OracleInit(records)
  /\ ScraperOff
  /\ AnalyzerOff

Init == InitWith(SampleRecords)

---------------------------------------------------------------------------
(* demo.main, one action per step of the script *)

(* the process is gone: its locals with it *)
Exit(output) ==
  /\ pc' = "idle"
  /\ keypair' = Unset
  /\ sentiment_data' = Unset
  /\ data_hash' = Unset
  /\ signature' = Unset
  /\ is_valid' = Unset
  /\ stdout' = output

(* an uncaught exception ends the process: traceback, exit code 1 *)
Crash(exc) == Exit([prog |-> "demo", result |-> exc, exit |-> 1])

(* lines 144-152: generate and save a keypair, or load the existing one *)
Main_Keypair ==
  /\ UNCHANGED <<scraper_vars, analyzer_vars>>
  /\ pc = "idle"
  /\ UNCHANGED <<fs_sentiment, fs_signed, fs_original, edits>>
  /\ IF fs_keypair.kind = "absent"
     THEN \E generated \in {generate_keypair(seed) : seed \in Seeds} :
            /\ keypair' = generated
            /\ fs_keypair' = save_keypair(generated)
            /\ pc' = "keys"
            /\ stdout' = NoOutput
            /\ UNCHANGED <<sentiment_data, data_hash, signature, is_valid>>
     ELSE \E loaded \in {load_keypair(fs_keypair)} :
            /\ UNCHANGED fs_keypair
            /\ IF loaded.ok
               THEN /\ keypair' = loaded.val
                    /\ pc' = "keys"
                    /\ stdout' = NoOutput
                    /\ UNCHANGED <<sentiment_data, data_hash, signature, is_valid>>
               ELSE Crash(loaded.exc)

(* lines 154-157 *)
Main_LoadSentiment ==
  /\ UNCHANGED <<scraper_vars, analyzer_vars>>
  /\ pc = "keys"
  /\ UNCHANGED <<files, edits>>
  /\ \E loaded \in {load_sentiment_data(fs_sentiment)} :
       IF loaded.ok
       THEN /\ sentiment_data' = loaded.val
            /\ pc' = "loaded"
            /\ UNCHANGED <<keypair, data_hash, signature, is_valid, stdout>>
       ELSE Crash(loaded.exc)

(* lines 159-162 *)
Main_Hash ==
  /\ UNCHANGED <<scraper_vars, analyzer_vars>>
  /\ pc = "loaded"
  /\ data_hash' = hash_sentiment_data(sentiment_data)
  /\ pc' = "hashed"
  /\ UNCHANGED <<files, keypair, sentiment_data, signature, is_valid, stdout, edits>>

(* lines 164-167 *)
Main_Sign ==
  /\ UNCHANGED <<scraper_vars, analyzer_vars>>
  /\ pc = "hashed"
  /\ UNCHANGED <<files, edits>>
  /\ \E signed \in {sign_data(data_hash, keypair.private_key)} :
       IF signed.ok
       THEN /\ signature' = signed.val
            /\ pc' = "signed"
            /\ UNCHANGED <<keypair, sentiment_data, data_hash, is_valid, stdout>>
       ELSE Crash(signed.exc)

(* lines 169-172 *)
Main_Save ==
  /\ UNCHANGED <<scraper_vars, analyzer_vars>>
  /\ pc = "signed"
  /\ fs_signed' = save_signed_data(sentiment_data, signature, keypair.public_key)
  /\ pc' = "saved"
  /\ UNCHANGED <<fs_keypair, fs_sentiment, fs_original, locals, stdout, edits>>

(* lines 174-176 *)
Main_Verify ==
  /\ UNCHANGED <<scraper_vars, analyzer_vars>>
  /\ pc = "saved"
  /\ UNCHANGED <<files, edits>>
  /\ \E verdict \in {verify_signed_data(fs_signed)} :
       IF verdict.ok
       THEN /\ is_valid' = verdict.val
            /\ pc' = "verified"
            /\ UNCHANGED <<keypair, sentiment_data, data_hash, signature, stdout>>
       ELSE Crash(verdict.exc)

(* lines 178-193: print the verdict; the process ends with exit code 0 *)
Main_Report ==
  /\ UNCHANGED <<scraper_vars, analyzer_vars>>
  /\ pc = "verified"
  /\ Exit([prog |-> "demo", result |-> IF is_valid THEN "valid" ELSE "invalid",
           exit |-> 0])
  /\ UNCHANGED <<files, edits>>

---------------------------------------------------------------------------
(* verify_tampering.py and compare_hashes.py, run as scripts.  The programs
   are run one at a time, and the files are edited between runs. *)

(* what the script prints for a verdict; an uncaught exception is exit code 1 *)
VerdictOutput(prog, verdict) ==
  IF ~verdict.ok THEN [prog |-> prog, result |-> verdict.exc, exit |-> 1]
  ELSE [prog |-> prog, result |-> IF verdict.val THEN "valid" ELSE "invalid",
        exit |-> 0]

(* verify_tampering.py, lines 49-58 *)
VerifyTampering_Run ==
  /\ UNCHANGED <<scraper_vars, analyzer_vars>>
  /\ pc = "idle"
  /\ stdout' = VerdictOutput("verify_tampering", vt_verify_signed_data(fs_signed))
  /\ stdout' # stdout
  /\ UNCHANGED <<files, pc, locals, edits>>

(* compare_hashes.py, lines 20-69 *)
CompareHashes_Run ==
  /\ UNCHANGED <<scraper_vars, analyzer_vars>>
  /\ pc = "idle"
  /\ stdout' = compare_main(fs_original, fs_signed)
  /\ stdout' # stdout
  /\ UNCHANGED <<files, pc, locals, edits>>

---------------------------------------------------------------------------
(* Edits made to the files from outside the programs *)

Edit ==
  /\ pc = "idle"
  /\ edits < MaxEdits
  /\ edits' = edits + 1
  /\ stdout' = NoOutput
  /\ UNCHANGED <<fs_sentiment, pc, locals>>

(* an envelope with one component replaced: the content written back *)
Rewritten(signed_data, k, x) == FileDoc(json_dump(SetItem(signed_data, k, x)))
Rewrite(file, k, x) == Rewritten(json_load(file).val, k, x)

(* cp signed_sentiment.json signed_sentiment_original.json: the copy the
   comparison is made against; a step of the demonstration, not an edit *)
Backup ==
  /\ UNCHANGED <<scraper_vars, analyzer_vars>>
  /\ pc = "idle"
  /\ fs_signed.kind = "json"
  /\ fs_original' = fs_signed
  /\ fs_original' # fs_original
  /\ stdout' = NoOutput
  /\ UNCHANGED <<fs_keypair, fs_sentiment, fs_signed, locals, pc, edits>>

(* the record of the envelope edited, signature and key left as they are *)
Tamper ==
  /\ UNCHANGED <<scraper_vars, analyzer_vars>>
  /\ Edit
  /\ \E env \in {LoadEnvelope(fs_signed)} :
       /\ env.ok
       /\ env.val.sentiment_data.t = "dict"
       /\ \E m \in Mutations :
            fs_signed' = Rewrite(fs_signed, K_data, Mutate(env.val.sentiment_data, m))
  /\ fs_signed' # fs_signed
  /\ UNCHANGED <<fs_keypair, fs_original>>

(* the envelope a party writes for a record with a keypair of its own *)
Sealed(record, own) ==
  save_signed_data(record,
                   Ed25519Sign(own.private_key, hash_sentiment_data(record)),
                   own.public_key)

(* a party that does not hold the private key of the keystore replaces
   record, signature and public key, signing with a key of its own *)
Forge ==
  /\ UNCHANGED <<scraper_vars, analyzer_vars>>
  /\ Edit
  /\ \E env \in {LoadEnvelope(fs_signed)}, oracle \in {load_keypair(fs_keypair)} :
       /\ env.ok
       /\ oracle.ok
       /\ env.val.sentiment_data.t = "dict"
       /\ \E own \in {generate_keypair(seed) : seed \in Seeds} :
            /\ own.private_key # oracle.val.private_key
            /\ fs_signed' = Sealed(Mutate(env.val.sentiment_data, "label"), own)
  /\ UNCHANGED <<fs_keypair, fs_original>>

(* the embedded public key replaced by the key of another keypair *)
SwapPublicKey ==
  /\ UNCHANGED <<scraper_vars, analyzer_vars>>
  /\ Edit
  /\ LoadEnvelope(fs_signed).ok
  /\ \E seed \in Seeds :
       fs_signed' = Rewrite(fs_signed, K_public_key,
                            PyStr(b64encode(generate_keypair(seed).public_key)))
  /\ fs_signed' # fs_signed
  /\ UNCHANGED <<fs_keypair, fs_original>>

(* signature or public key replaced by a byte string of the wrong length *)
Malform ==
  /\ UNCHANGED <<scraper_vars, analyzer_vars>>
  /\ Edit
  /\ \E env \in {LoadEnvelope(fs_signed)} :
       /\ env.ok
       /\ \/ \E b \in {Truncate(env.val.signature), Extend(env.val.signature)} :
               fs_signed' = Rewrite(fs_signed, K_signature, PyStr(b64encode(b)))
          \/ \E b \in {Truncate(env.val.public_key), Extend(env.val.public_key)} :
               fs_signed' = Rewrite(fs_signed, K_public_key, PyStr(b64encode(b)))
  /\ UNCHANGED <<fs_keypair, fs_original>>

(* the keystore removed, or replaced by a file that is not a sound keystore:
   not JSON, a field missing, a key of the wrong length, or the private key
   of one keypair with the public key of another *)
EditKeystore ==
  /\ UNCHANGED <<scraper_vars, analyzer_vars>>
  /\ Edit
  /\ \E loaded \in {load_keypair(fs_keypair)} :
       /\ loaded.ok
       /\ \E kp \in {loaded.val} :
            \/ fs_keypair' = NoFile
            \/ fs_keypair' = Garbage
            \/ fs_keypair' = FileDoc(json_dump(PyDict(
                  << <<K_private_key, PyStr(b64encode(kp.private_key))>> >>)))
            \/ fs_keypair' = save_keypair(Keypair(Truncate(kp.private_key),
                                                  kp.public_key))
            \/ fs_keypair' = save_keypair(Keypair(kp.private_key,
                                                  Truncate(kp.public_key)))
            \/ \E other \in Seeds :
                 fs_keypair' = save_keypair(
                   Keypair(kp.private_key, generate_keypair(other).public_key))
  /\ fs_keypair' # fs_keypair
  /\ UNCHANGED <<fs_signed, fs_original>>

---------------------------------------------------------------------------
Next ==
  \/ Main_Keypair
  \/ Main_LoadSentiment
  \/ Main_Hash
  \/ Main_Sign
  \/ Main_Save
  \/ Main_Verify
  \/ Main_Report
  \/ VerifyTampering_Run
  \/ CompareHashes_Run
  \/ Backup
  \/ Tamper
  \/ Forge
  \/ SwapPublicKey
  \/ Malform
  \/ EditKeystore

Spec == Init /\ [][Next]_vars

(* the same programs and edits, started on a record with a score that is not
   a finite number *)
InitNonFinite == InitWith(NonFiniteRecords)

SpecNonFinite == InitNonFinite /\ [][Next]_vars

---------------------------------------------------------------------------
(* twitter_scraper.py *)

(* lines 55-68: three Nitter instances, then Stocktwits, then TradingView *)
SOURCES == <<"nitter", "nitter", "nitter", "stocktwits", "tradingview">>

(* the source field and the id prefix each parser writes *)
SourceLabel(kind) ==
  CASE kind = "nitter" -> "Twitter"
    [] kind = "stocktwits" -> "Stocktwits"
    [] kind = "tradingview" -> "TradingView"

IdPrefix(kind) ==
  CASE kind = "nitter" -> <<"n", "i", "t", "t", "e", "r">>
    [] kind = "stocktwits" -> <<"s", "t", "o", "c", "k", "t", "w", "i", "t">>
    [] kind = "tradingview" -> <<"t", "r", "a", "d", "i", "n", "g", "v", "i", "e", "w">>

Queries == {"$SOL lang:en", "nifty 50 lang:en"}

(* the href of the .tweet-link of an element *)
Hrefs ==
  {<<"/", "a", "/", "s", "t", "a", "t", "u", "s", "/", "1", "2", "3", "4", "5", "6", "7", "#", "m">>,
   <<"/", "b", "/", "s", "t", "a", "t", "u", "s", "/", "7", "6", "5", "4", "3", "2", "1", "#", "m">>}

(* an element the selector finds: it is parsed into a record (ok), or left
   out because a field is missing or its parsing raised (skip); an element
   of a Nitter page that is parsed has a .tweet-link with an href, or none *)
Elements ==
  {[parse |-> "skip", link |-> FALSE, href |-> <<>>],
   [parse |-> "ok", link |-> FALSE, href |-> <<>>]}
    \cup {[parse |-> "ok", link |-> TRUE, href |-> h] : h \in Hrefs}

(* a page as the elements the selector finds *)
ElementLists ==
  UNION {[1..n -> Elements] : n \in 0..MaxElements}

(* href.split("/")[-1]: what follows the last slash *)
LastSegment(href) ==
  SubSeq(href,
         1 + Cardinality({i \in 1..Len(href) : \E j \in i..Len(href) : href[j] = "/"}),
         Len(href))


(* the n-th smallest member of a set of numbers *)
Nth(set, n) == CHOOSE i \in set : Cardinality({j \in set : j < i}) = n - 1

(* lines 101, 151, 195: the id of the record: on a Nitter page the last
   segment of the link of the tweet when the element has one, and otherwise
   the name of the source and the position of the element *)
tweet_id(kind, i, element) ==
  IF kind = "nitter" /\ element.link THEN LastSegment(element.href)
  ELSE IdPrefix(kind) \o <<"_">> \o IntRepr(i)

(* the record the parsers build; the text fields of the page are left out *)
TweetData(kind, i, element, query) ==
  [id |-> tweet_id(kind, i, element), source |-> SourceLabel(kind), query |-> query]

(* the positions the loop of a parser appends from: enumerate stops at
   i >= limit *)
Parsed(elements, limit) ==
  {i \in 1..Min(Len(elements), limit) : elements[i].parse = "ok"}

(* lines 81-210: the records one page adds, in page order *)
ParseElements(kind, elements, limit, query) ==
  [n \in 1..Cardinality(Parsed(elements, limit)) |->
     TweetData(kind, Nth(Parsed(elements, limit), n) - 1,
               elements[Nth(Parsed(elements, limit), n)], query)]

(* as if the range of the generator started at 1 *)
generate_sample_tweets_from_one(query, limit) ==
  [n \in 1..(limit - 1) |->
     [id |-> <<"sample", n>>, source |-> "Sample", query |-> query]]

(* generate_sample_tweets: limit records; their random texts and counts are
   left out *)
generate_sample_tweets(query, limit) ==
  [n \in 1..limit |->
     [id |-> <<"sample", n - 1>>, source |-> "Sample", query |-> query]]

(* tweets[:limit] *)
Slice(tweets, limit) ==
  IF limit >= 0 THEN SubSeq(tweets, 1, Min(limit, Len(tweets)))
  ELSE SubSeq(tweets, 1, Len(tweets) + limit)

(* lines 225-230: the fallback to sample data *)
Padded(tweets, query, limit) ==
  IF tweets = <<>> THEN generate_sample_tweets(query, limit)
  ELSE IF Len(tweets) < limit
  THEN tweets \o generate_sample_tweets(query, limit - Len(tweets))
  ELSE tweets

GetTweets_Return(result) ==
  /\ gt_pc' = "returned"
  /\ gt_result' = result

(* lines 70-77 and 217-222: the request or the parser raised, or the status
   is not 200: on to the next source *)
GetTweets_NoPage ==
  /\ gt_pc = "loop"
  /\ gt_source <= Len(SOURCES)
  /\ \E outcome \in {"exception", "status"} :
       /\ gt_source' = gt_source + 1
       /\ UNCHANGED <<gt_pc, gt_query, gt_limit, gt_tweets, gt_result>>
  /\ UNCHANGED <<oracle_vars, analyzer_vars>>

(* lines 77-215: a page is parsed; return once there are records and they
   are at least limit *)
GetTweets_Page ==
  /\ gt_pc = "loop"
  /\ gt_source <= Len(SOURCES)
  /\ \E elements \in ElementLists :
       \E tweets \in {gt_tweets \o ParseElements(SOURCES[gt_source], elements,
                                                gt_limit, gt_query)} :
         /\ gt_tweets' = tweets
         /\ IF tweets # <<>> /\ Len(tweets) >= gt_limit
            THEN /\ GetTweets_Return(Slice(tweets, gt_limit))
                 /\ UNCHANGED gt_source
            ELSE /\ gt_source' = gt_source + 1
                 /\ UNCHANGED <<gt_pc, gt_result>>
  /\ UNCHANGED <<gt_query, gt_limit>>
  /\ UNCHANGED <<oracle_vars, analyzer_vars>>

(* lines 224-232: after the last source *)
GetTweets_Fallback ==
  /\ gt_pc = "loop"
  /\ gt_source > Len(SOURCES)
  /\ \E tweets \in {Padded(gt_tweets, gt_query, gt_limit)} :
       /\ gt_tweets' = tweets
       /\ GetTweets_Return(Slice(tweets, gt_limit))
  /\ UNCHANGED <<gt_query, gt_limit, gt_source>>
  /\ UNCHANGED <<oracle_vars, analyzer_vars>>

(* get_tweets(query, limit) called with a limit that is not negative *)
InitScraper ==
  /\ OracleInit({SampleRecord})
  /\ AnalyzerOff
  /\ gt_pc = "loop"
  /\ gt_query \in Queries
  /\ gt_limit \in 0..MaxLimit
  /\ gt_source = 1
  /\ gt_tweets = <<>>
  /\ gt_result = <<>>

NextScraper ==
  \/ GetTweets_NoPage
  \/ GetTweets_Page
  \/ GetTweets_Fallback

SpecScraper == InitScraper /\ [][NextScraper]_vars

---------------------------------------------------------------------------
(* sentiment_analyzer.py *)

(* line 100 *)
batch_size == 8

(* lines 52-55 *)
positive_terms ==
  << <<"b", "u", "l", "l", "i", "s", "h">>,
     <<"m", "o", "o", "n">>,
     <<"l", "o", "n", "g", " ", "t", "e", "r", "m">>,
     <<"s", "u", "p", "p", "o", "r", "t">>,
     <<"s", "t", "r", "o", "n", "g">>,
     <<"g", "r", "o", "w", "t", "h">>,
     <<"p", "u", "m", "p", "i", "n", "g">>,
     <<"h", "i", "g", "h", "e", "r">>,
     <<"u", "p", "s", "i", "d", "e">>,
     <<"b", "u", "y">>,
     <<"b", "u", "y", "i", "n", "g">>,
     <<"b", "o", "u", "g", "h", "t">>,
     <<"m", "o", "m", "e", "n", "t", "u", "m">>,
     <<"t", "a", "r", "g", "e", "t">> >>

(* lines 58-61 *)
negative_terms ==
  << <<"b", "e", "a", "r", "i", "s", "h">>,
     <<"c", "r", "a", "s", "h">>,
     <<"r", "e", "s", "i", "s", "t", "a", "n", "c", "e">>,
     <<"s", "h", "o", "r", "t", " ", "t", "e", "r", "m">>,
     <<"d", "o", "w", "n">>,
     <<"d", "i", "p">>,
     <<"s", "e", "l", "l">>,
     <<"s", "e", "l", "l", "i", "n", "g">>,
     <<"s", "o", "l", "d">>,
     <<"o", "v", "e", "r", "v", "a", "l", "u", "e", "d">>,
     <<"d", "r", "a", "g">> >>

(* str.lower(), on ASCII text *)
Lower(s) ==
  [i \in 1..Len(s) |->
     IF Ord(s[i]) \in 65..90 THEN Chr(Ord(s[i]) + 32) ELSE s[i]]

(* term in text *)
Contains(text, term) ==
  \E i \in 1..(Len(text) - Len(term) + 1) : SubSeq(text, i, i + Len(term) - 1) = term

(* sum(1 for term in terms if term in text_lower) *)
Matches(terms, text_lower) ==
  Cardinality({k \in 1..Len(terms) : Contains(text_lower, terms[k])})


(* lines 68-75, scores held as their value times 100 *)
Adjusted(positive_matches, negative_matches, label, score) ==
  IF positive_matches > negative_matches /\ positive_matches >= 1
  THEN [label |-> "POSITIVE", score |-> Max(score, 75)]
  ELSE IF negative_matches > positive_matches /\ negative_matches >= 1
  THEN [label |-> "NEGATIVE", score |-> Max(score, 75)]
  ELSE IF 40 < score /\ score < 60
  THEN [label |-> "NEUTRAL", score |-> score]
  ELSE [label |-> label, score |-> score]

adjust_financial_sentiment(text, label, score) ==
  CHOOSE adjusted \in
    {Adjusted(positive_matches, negative_matches, label, score) :
       positive_matches \in {Matches(positive_terms, text_lower) :
                               text_lower \in {Lower(text)}},
       negative_matches \in {Matches(negative_terms, text_lower) :
                               text_lower \in {Lower(text)}}} : TRUE

(* the texts of the tweets the analyzer is given *)
Contents ==
  << <<"$", "S", "O", "L", " ", "i", "s", " ", "l", "o", "o", "k", "i", "n", "g", " ", "b", "u", "l", "l", "i", "s", "h", " ", "t", "o", "d", "a", "y", "!">>,
     <<"B", "e", "a", "r", "i", "s", "h", " ", "o", "n", " ", "$", "S", "O", "L", " ", "s", "h", "o", "r", "t", " ", "t", "e", "r", "m", ",", " ", "b", "u", "t", " ", "l", "o", "n", "g", " ", "t", "e", "r", "m", " ", "p", "o", "t", "e", "n", "t", "i", "a", "l", " ", "i", "s", " ", "h", "u", "g", "e", ".">>,
     <<"B", "a", "n", "k", "i", "n", "g", " ", "s", "t", "o", "c", "k", "s", " ", "d", "r", "a", "g", "g", "i", "n", "g", " ", "N", "i", "f", "t", "y", " ", "5", "0", " ", "d", "o", "w", "n", ".">>,
     <<"S", "o", "l", "a", "n", "a", " ", "T", "P", "S", " ", "i", "s", " ", "i", "n", "c", "r", "e", "d", "i", "b", "l", "e", ".">> >>

(* the transformers pipeline called on a list of texts: one label and score
   for each text, in order; which ones is up to the model, here one of two
   classifiers *)
Classifiers ==
  {[text \in {Contents[k] : k \in 1..Len(Contents)} |->
      [label |-> IF Contains(Lower(text), <<"b", "u", "l", "l">>) = up
                 THEN "POSITIVE" ELSE "NEGATIVE",
       score |-> IF up THEN 98 ELSE 55]] : up \in BOOLEAN}

sentiment_analyzer(classifier, texts) ==
  [j \in 1..Len(texts) |-> classifier[texts[j]]]

(* as if the slice ended one short: tweets[i:i+batch_size-1] *)
BatchShort(tweets, i) ==
  SubSeq(tweets, i + 1, Min(i + batch_size - 1, Len(tweets)))

(* tweets[i:i+batch_size] *)
Batch(tweets, i) == SubSeq(tweets, i + 1, Min(i + batch_size, Len(tweets)))

(* lines 117-132: the result built for one tweet *)
ResultWith(tweet, adjusted) ==
  [id |-> tweet.id, text |-> tweet.content, label |-> adjusted.label,
   score |-> adjusted.score, date |-> tweet.date, username |-> tweet.username,
   source |-> tweet.source]

ResultOf(tweet, sentiment) ==
  ResultWith(tweet, adjust_financial_sentiment(tweet.content, sentiment.label,
                                               sentiment.score))

(* lines 104-134: the results one batch adds *)
BatchResults(batch, sentiment_results) ==
  [j \in 1..Len(sentiment_results) |-> ResultOf(batch[j], sentiment_results[j])]

(* the k-th tweet of an input list *)
TweetAt(k, shift) ==
  [id |-> <<"t", k>>,
   content |-> Contents[((k + shift) % Len(Contents)) + 1],
   date |-> <<"2025-01-01T00:00:", k>>,
   username |-> <<"user", k % 3>>,
   source |-> IF k % 2 = 0 THEN "Twitter" ELSE "Sample"]

(* lines 102-134: one pass of the loop over the batches *)
Analyze_Batch ==
  /\ as_pc = "loop"
  /\ as_i < Len(as_tweets)
  /\ \E classifier \in Classifiers :
       \E batch \in {Batch(as_tweets, as_i)} :
         as_results' = as_results \o
           BatchResults(batch,
                        sentiment_analyzer(classifier,
                                           [j \in 1..Len(batch) |-> batch[j].content]))
  /\ as_i' = as_i + batch_size
  /\ UNCHANGED <<as_pc, as_tweets>>
  /\ UNCHANGED <<oracle_vars, scraper_vars>>

(* lines 139-140: the range is exhausted *)
Analyze_Return ==
  /\ as_pc = "loop"
  /\ as_i >= Len(as_tweets)
  /\ as_pc' = "returned"
  /\ UNCHANGED <<as_tweets, as_i, as_results>>
  /\ UNCHANGED <<oracle_vars, scraper_vars>>

(* analyze_sentiment(tweets) called with a list of tweets *)
InitAnalyzer ==
  /\ OracleInit({SampleRecord})
  /\ ScraperOff
  /\ as_pc = "loop"
  /\ as_tweets \in {[k \in 1..n |-> TweetAt(k, shift)] : n \in 0..MaxTweets,
                                                         shift \in 0..1}
  /\ as_i = 0
  /\ as_results = <<>>

NextAnalyzer ==
  \/ Analyze_Batch
  \/ Analyze_Return

(* the loop is a for over a range: each pass is taken *)
SpecAnalyzer == InitAnalyzer /\ [][NextAnalyzer]_vars /\ WF_vars(NextAnalyzer)

---------------------------------------------------------------------------
(* Properties *)

(* the keypairs generate_keypair can return *)
GeneratedKeypairs == {generate_keypair(seed) : seed \in Seeds}

(* the same value, field for field and in the same order *)
RECURSIVE Identical(_, _)
Identical(a, b) ==
  IF a.t # b.t THEN FALSE
  ELSE IF a.t = "dict" THEN
    /\ Keys(a) = Keys(b)
    /\ \A i \in 1..Len(a.v) : Identical(a.v[i][2], b.v[i][2])
  ELSE IF a.t = "list" THEN
    /\ Len(a.v) = Len(b.v)
    /\ \A i \in 1..Len(a.v) : Identical(a.v[i], b.v[i])
  ELSE a.v = b.v

(* the verdict is the boolean b, returned and not raised *)
Returns(verdict, b) == verdict.ok /\ verdict.val = b

(* the last program run on the files as they are reported them valid *)
ReportedValid ==
  /\ stdout.prog \in {"demo", "verify_tampering"}
  /\ stdout.result = "valid"

(* C1: sign/verify round trip.  For every keypair generate_keypair returns
   and every record (the record demo.main has hashed, and a record of nested
   values), the signature sign_data makes of the digest with the private key
   is accepted by verify_signature with the public key; the envelope save_signed_data writes from them is accepted by
   verify_signed_data, and demo.main finds it valid. *)
C1_SignVerifyRoundTrip ==
  /\ (pc = "signed" /\ keypair \in GeneratedKeypairs) =>
       \A kp \in GeneratedKeypairs :
         \A signed \in {sign_data(hash_sentiment_data(sentiment_data),
                                  kp.private_key)} :
           /\ signed.ok
           /\ Returns(verify_signature(hash_sentiment_data(sentiment_data),
                                       signed.val, kp.public_key), TRUE)
           /\ kp = keypair => signed.val = signature
           /\ \A h \in {hash_sentiment_data(NestedRecord)} :
                Returns(verify_signature(h, sign_data(h, kp.private_key).val,
                                         kp.public_key), TRUE)
  /\ (pc = "saved" /\ keypair \in GeneratedKeypairs) =>
       /\ Returns(verify_signed_data(fs_signed), TRUE)
       /\ Returns(vt_verify_signed_data(fs_signed), TRUE)
  /\ (pc = "verified" /\ keypair \in GeneratedKeypairs) => is_valid = TRUE

(* demo.main has signed, saved and verified with a generated keypair *)
C1_Witness ==
  /\ pc = "verified"
  /\ keypair \in GeneratedKeypairs
  /\ is_valid = TRUE

(* the envelope with its record edited by m, signature and key as they were *)
TamperedBy(env, m) ==
  Ok([sentiment_data |-> Mutate(env.val.sentiment_data, m),
      signature |-> env.val.signature,
      public_key |-> env.val.public_key])

(* two envelopes that carry the same signature and the same public key *)
SameSeal(a, b) ==
  /\ a.val.signature = b.val.signature
  /\ a.val.public_key = b.val.public_key

(* C2: tamper sensitivity.  When an envelope verifies, every envelope with
   the same signature and public key whose record differs from its record in
   a field (a value changed, a field added, a field removed) is reported
   invalid: the verifier rejects the digest of the edited record with the
   signature and key of the valid envelope, and verify_tampering.py reports
   an envelope file edited away from a valid copy invalid. *)
C2_TamperSensitivity ==
  /\ ReportedValid =>
       \A env \in {LoadEnvelope(fs_signed)} :
         \A m \in Mutations :
           (/\ env.ok
            /\ ~PyEq(Mutate(env.val.sentiment_data, m), env.val.sentiment_data))
           => /\ Returns(VerifyEnvelope(TamperedBy(env, m)), FALSE)
              /\ Returns(vt_VerifyEnvelope(TamperedBy(env, m)), FALSE)
  /\ (stdout.prog = "verify_tampering" /\ stdout.result # "invalid") =>
       \A a \in {LoadEnvelope(fs_original)}, b \in {LoadEnvelope(fs_signed)} :
         ~(/\ a.ok
           /\ b.ok
           /\ SameSeal(a, b)
           /\ Returns(verify_signed_data(fs_original), TRUE)
           /\ ~PyEq(a.val.sentiment_data, b.val.sentiment_data))

(* the record of a valid envelope was edited, signature and key were left,
   and verify_tampering.py reported the edited envelope invalid *)
C2_Witness ==
  /\ stdout.prog = "verify_tampering"
  /\ stdout.result = "invalid"
  /\ \E a \in {LoadEnvelope(fs_original)}, b \in {LoadEnvelope(fs_signed)} :
       /\ a.ok
       /\ b.ok
       /\ SameSeal(a, b)
       /\ Returns(verify_signed_data(fs_original), TRUE)
       /\ ~PyEq(a.val.sentiment_data, b.val.sentiment_data)

(* the signature is the one the private key makes of the record *)
SignedBy(env, private_key) ==
  /\ Len(private_key) = ED25519_KEY_SIZE
  /\ env.val.signature =
       Ed25519Sign(private_key, hash_sentiment_data(env.val.sentiment_data))

(* C3, as the specification states it: an envelope is reported valid only if
   its record was signed by the keypair of the keystore, so that an envelope
   a party without the private key of the keystore has written with a key
   of its own is never reported valid. *)
C3_ValidMeansSignedByOracle ==
  ReportedValid =>
    \A env \in {LoadEnvelope(fs_signed)}, oracle \in {load_keypair(fs_keypair)} :
      (env.ok /\ oracle.ok /\ Keypair(oracle.val.private_key, oracle.val.public_key)
                                \in GeneratedKeypairs)
      => /\ SignedBy(env, oracle.val.private_key)
         /\ env.val.public_key = oracle.val.public_key

(* C4, as the specification states it: verify_signature raises on no input
   and returns False when the signature or the public key is structurally
   invalid, for the digest, signature and key of every envelope. *)
C4_VerifierNeverRaises ==
  \A env \in {LoadEnvelope(fs_signed)} :
    env.ok =>
      \A verdict \in {verify_signature(hash_sentiment_data(env.val.sentiment_data),
                                       env.val.signature, env.val.public_key)} :
        /\ verdict.ok
        /\ (\/ Len(env.val.signature) # ED25519_SIG_SIZE
            \/ Len(env.val.public_key) # ED25519_KEY_SIZE) => verdict.val = FALSE

(* the record with its items in the order f *)
Permuted(record, f) == PyDict([i \in 1..Len(record.v) |-> record.v[f[i]]])

(* the keys of the record are not in sorted order *)
Unsorted(record) == Keys(record) # Keys(PyDict(SortItems(record.v)))

(* the same fields with the same values, whatever the order *)
SameItems(a, b) ==
  /\ KeySet(a) = KeySet(b)
  /\ \A k \in KeySet(a) : Identical(GetItem(a, k).val, GetItem(b, k).val)

(* C5: canonicalisation is order-invariant.  A record and every record with
   the same items in another insertion order (every permutation of the
   record demo.main has hashed, and a record of nested values reversed) have
   the same canonical text and so the same digest, from hash_sentiment_data
   of demo.py and of verify_tampering.py and from hash_data;
   compare_hashes.py finds the hashes of two such records equal. *)
C5_OrderInvariantDigest ==
  /\ pc = "hashed" =>
       \A f \in Permutations(1..Len(sentiment_data.v)) :
         \A r \in {Permuted(sentiment_data, f)} :
           /\ json_dumps(r) = json_dumps(sentiment_data)
           /\ hash_sentiment_data(r) = data_hash
           /\ vt_hash_sentiment_data(r) = data_hash
           /\ hash_data(r) = Hex(data_hash)
  /\ pc = "hashed" =>
       \A r \in {PyDict(Reverse(NestedRecord.v))} :
         /\ json_dumps(r) = json_dumps(NestedRecord)
         /\ hash_sentiment_data(r) = hash_sentiment_data(NestedRecord)
  /\ (stdout.prog = "compare" /\ stdout.result = "conclusion") =>
       \A a \in {LoadEnvelope(fs_original)}, b \in {LoadEnvelope(fs_signed)} :
         (/\ a.ok
          /\ b.ok
          /\ a.val.sentiment_data.t = "dict"
          /\ b.val.sentiment_data.t = "dict"
          /\ SameItems(a.val.sentiment_data, b.val.sentiment_data))
         => stdout.report.hashes_match

(* demo.main has hashed a record whose keys are not in sorted order *)
C5_Witness ==
  /\ pc = "hashed"
  /\ Unsorted(sentiment_data)
  /\ data_hash = hash_sentiment_data(PyDict(SortItems(sentiment_data.v)))

(* the private key of one generated keypair with the public key of another *)
Mismatched(private_key, public_key) ==
  \E a \in GeneratedKeypairs, b \in GeneratedKeypairs :
    /\ a # b
    /\ private_key = a.private_key
    /\ public_key = b.public_key

(* C6: wrong-key rejection.  save_signed_data writes the envelope whatever
   public key it is given, and an envelope whose signature was made with
   the private key of one generated keypair and whose public key is the
   public key of another is reported invalid by verify_signed_data. *)
C6_WrongKeyRejected ==
  /\ (pc = "saved" /\ Mismatched(keypair.private_key, keypair.public_key)) =>
       \A env \in {LoadEnvelope(fs_signed)} :
         /\ env.ok
         /\ env.val.public_key = keypair.public_key
         /\ env.val.signature = signature
         /\ SignedBy(env, keypair.private_key)
         /\ Returns(verify_signed_data(fs_signed), FALSE)
         /\ Returns(vt_verify_signed_data(fs_signed), FALSE)
  /\ (pc = "verified" /\ Mismatched(keypair.private_key, keypair.public_key)) =>
       is_valid = FALSE
  /\ ReportedValid =>
       \A env \in {LoadEnvelope(fs_signed)} :
         \A a \in GeneratedKeypairs :
           ~(env.ok /\ SignedBy(env, a.private_key)
                    /\ Mismatched(a.private_key, env.val.public_key))

(* demo.main has sealed with the private key of one keypair and the public
   key of another, and found the envelope invalid *)
C6_Witness ==
  /\ pc = "verified"
  /\ Mismatched(keypair.private_key, keypair.public_key)
  /\ fs_signed = save_signed_data(sentiment_data, signature, keypair.public_key)
  /\ is_valid = FALSE

(* the fields in which two records differ: present in one only, or present
   in both with different values *)
DifferingFields(original, tampered) ==
  {k \in KeySet(original) \cup KeySet(tampered) :
     \/ k \notin KeySet(original)
     \/ k \notin KeySet(tampered)
     \/ ~PyEq(GetItem(original, k).val, GetItem(tampered, k).val)}

(* the field names compare_hashes.py printed as changed, in its order *)
ReportedFields == [i \in 1..Len(stdout.report.changes) |-> stdout.report.changes[i][1]]

(* compare_hashes.py has loaded both envelopes and gone through its loop *)
Compared ==
  /\ stdout.prog = "compare"
  /\ stdout.result \notin {"error_loading_original", "error_loading_tampered"}

(* C7, as the specification states it: the comparison reports exactly the
   fields that differ between the two records, over the union of their
   keys. *)
C7_ComparisonComplete ==
  Compared =>
    \A a \in {LoadEnvelope(fs_original)}, b \in {LoadEnvelope(fs_signed)} :
      (/\ a.ok
       /\ b.ok
       /\ a.val.sentiment_data.t = "dict"
       /\ b.val.sentiment_data.t = "dict")
      => /\ stdout.result = "conclusion"
         /\ {ReportedFields[i] : i \in 1..Len(ReportedFields)}
              = DifferingFields(a.val.sentiment_data, b.val.sentiment_data)

(* C8, as the specification states it: the differing fields are reported in
   lexicographic order of their names. *)
C8_ReportSorted ==
  (stdout.prog = "compare" /\ stdout.result = "conclusion") =>
    \A i \in 1..Len(ReportedFields), j \in 1..Len(ReportedFields) :
      i < j => StrLess(ReportedFields[i], ReportedFields[j])

(* C9: envelope round trip.  Loading the envelope save_signed_data has
   written gives back the record field for field, the signature and the
   public key byte for byte: for the envelope demo.main has saved, and for
   a record of nested values saved with the same signature and key. *)
C9_EnvelopeRoundTrip ==
  pc = "saved" =>
    /\ \A env \in {LoadEnvelope(fs_signed)} :
         /\ env.ok
         /\ Identical(env.val.sentiment_data, sentiment_data)
         /\ env.val.signature = signature
         /\ env.val.public_key = keypair.public_key
    /\ \A env \in {LoadEnvelope(save_signed_data(NestedRecord, signature,
                                                 keypair.public_key))} :
         /\ env.ok
         /\ Identical(env.val.sentiment_data, NestedRecord)
         /\ env.val.signature = signature
         /\ env.val.public_key = keypair.public_key

(* save_signed_data has written a record with a signature of 64 bytes and a
   public key of 32 bytes, and the file holds them *)
C9_Witness ==
  /\ pc = "saved"
  /\ Len(signature) = ED25519_SIG_SIZE
  /\ Len(keypair.public_key) = ED25519_KEY_SIZE
  /\ fs_signed.kind = "json"
  /\ LoadEnvelope(fs_signed).ok
  /\ LoadEnvelope(fs_signed).val.signature = signature

(* C10, as the specification states it: load_keypair returns no keypair
   when a key of the keystore does not decode to 32 bytes; demo.main goes
   on only with keys of 32 bytes. *)
C10_KeystoreValidated ==
  /\ \A loaded \in {load_keypair(fs_keypair)} :
       loaded.ok => /\ Len(loaded.val.private_key) = ED25519_KEY_SIZE
                    /\ Len(loaded.val.public_key) = ED25519_KEY_SIZE
  /\ pc = "keys" => /\ Len(keypair.private_key) = ED25519_KEY_SIZE
                    /\ Len(keypair.public_key) = ED25519_KEY_SIZE

(* the public key the envelope file carries is the public key of the
   keystore file *)
CarriesKeystoreKey(envelope_file, keystore_file) ==
  \E env \in {LoadEnvelope(envelope_file)}, stored \in {load_keypair(keystore_file)} :
    /\ env.ok
    /\ stored.ok
    /\ env.val.public_key = stored.val.public_key

(* C11: stable oracle identity.  No step of a program changes or removes a
   keystore file that exists; the keystore is written only by the step of
   demo.main that finds none, with a freshly generated keypair, before
   demo.main signs, and loading the file written gives back that keypair;
   a run that finds a keystore uses the keypair loaded from it; and every
   envelope demo.main saves carries the public key of the keystore file.
   So while the keystore is not deleted or edited from outside, every
   envelope carries the public key of the first run. *)
C11_StableIdentity ==
  [][/\ (fs_keypair.kind # "absent" /\ edits' = edits) => fs_keypair' = fs_keypair
     /\ (fs_keypair.kind = "absent" /\ fs_keypair' # fs_keypair) =>
          /\ pc = "idle"
          /\ pc' = "keys"
          /\ keypair' \in GeneratedKeypairs
          /\ fs_keypair' = save_keypair(keypair')
          /\ \A stored \in {load_keypair(fs_keypair')} :
               stored.ok /\ stored.val = keypair'
     /\ (pc = "idle" /\ pc' = "keys" /\ fs_keypair.kind # "absent") =>
          \A stored \in {load_keypair(fs_keypair)} :
            stored.ok /\ keypair' = stored.val
     /\ (pc = "signed" /\ pc' = "saved") =>
          /\ CarriesKeystoreKey(fs_signed', fs_keypair')
          /\ fs_original.kind = "json" /\ edits = 0
               => \A a \in {LoadEnvelope(fs_original)}, b \in {LoadEnvelope(fs_signed')} :
                    a.ok /\ b.ok /\ a.val.public_key = b.val.public_key
    ]_vars

(* a later run of demo.main, with the keystore of the first run untouched,
   has saved an envelope that carries the same public key as the envelope
   of the earlier run kept as the original *)
C11_Witness ==
  /\ pc = "saved"
  /\ edits = 0
  /\ fs_original.kind = "json"
  /\ CarriesKeystoreKey(fs_signed, fs_keypair)
  /\ CarriesKeystoreKey(fs_original, fs_keypair)
  /\ keypair = load_keypair(fs_keypair).val

(* C12, as the specification states it: the verify operation ends with
   exit code 0 exactly when the signature verified, nonzero when it did not
   or a file could not be read; the compare operation ends nonzero when an
   input file cannot be loaded. *)
C12_ExitStatusReflectsOutcome ==
  /\ stdout.prog \in {"verify_tampering", "demo"} =>
       (stdout.exit = 0 <=> stdout.result = "valid")
  /\ (/\ stdout.prog = "compare"
      /\ stdout.result \in {"error_loading_original", "error_loading_tampered"})
     => stdout.exit # 0

(* the value holds a nan or an infinity, at any depth *)
RECURSIVE ContainsNonFinite(_)
ContainsNonFinite(x) ==
  IF x.t = "nonfinite" THEN TRUE
  ELSE IF x.t = "dict" THEN \E i \in 1..Len(x.v) : ContainsNonFinite(x.v[i][2])
  ELSE IF x.t = "list" THEN \E i \in 1..Len(x.v) : ContainsNonFinite(x.v[i])
  ELSE FALSE

(* C13, as the specification states it: a record that holds a NaN or an
   Infinity is never hashed or signed, demo.main does not get past its hash
   step with it, and no envelope with such a record is given a verdict. *)
C13_NonFiniteRejected ==
  /\ pc \in {"hashed", "signed", "saved", "verified"} =>
       ~ContainsNonFinite(sentiment_data)
  /\ (stdout.prog \in {"demo", "verify_tampering"}
        /\ stdout.result \in {"valid", "invalid"}) =>
       \A env \in {LoadEnvelope(fs_signed)} :
         env.ok => ~ContainsNonFinite(env.val.sentiment_data)

(* the three digest functions agree on the record: the same bytes from
   demo.py and verify_tampering.py, and their hex text from compare_hashes.py *)
OneDigest(record, digest) ==
  /\ vt_hash_sentiment_data(record) = digest
  /\ hash_data(record) = Hex(digest)

(* C14: one digest function everywhere.  For the record demo.main has
   hashed and for a record of nested values, hash_sentiment_data of
   verify_tampering.py gives the digest demo.py gives and hash_data gives
   its hex text; and compare_hashes.py finds the hashes of two records
   equal exactly when their signing digests are equal. *)
C14_OneDigestFunction ==
  /\ pc = "hashed" =>
       /\ OneDigest(sentiment_data, data_hash)
       /\ OneDigest(NestedRecord, hash_sentiment_data(NestedRecord))
  /\ (stdout.prog = "compare" /\ stdout.result = "conclusion") =>
       \A a \in {LoadEnvelope(fs_original)}, b \in {LoadEnvelope(fs_signed)} :
         (a.ok /\ b.ok) =>
           (stdout.report.hashes_match
              <=> hash_sentiment_data(a.val.sentiment_data)
                    = hash_sentiment_data(b.val.sentiment_data))

(* compare_hashes.py has compared two records with different signing
   digests and found their hashes different *)
C14_Witness ==
  /\ stdout.prog = "compare"
  /\ stdout.result = "conclusion"
  /\ ~stdout.report.hashes_match
  /\ hash_sentiment_data(LoadEnvelope(fs_original).val.sentiment_data)
       # hash_sentiment_data(LoadEnvelope(fs_signed).val.sentiment_data)

(* the record of the envelope file is the record, and has its digest *)
EmbedsRecord(envelope_file, record, digest) ==
  \E env \in {LoadEnvelope(envelope_file)} :
    /\ env.ok
    /\ Identical(env.val.sentiment_data, record)
    /\ hash_sentiment_data(env.val.sentiment_data) = digest

(* C15: the envelope lifecycle leaves its inputs unchanged.  While
   demo.main goes on from one step to the next, the keypair and the
   keystore file stay as they are once the keypair is there, the record in
   memory and the record file stay as they are once the record is loaded;
   the envelope saved embeds the record that was hashed; and the verify
   step writes no file. *)
C15_LifecycleFrame ==
  [][/\ (pc \in {"keys", "loaded", "hashed", "signed", "saved"} /\ pc' # "idle") =>
          /\ keypair' = keypair
          /\ fs_keypair' = fs_keypair
          /\ fs_sentiment' = fs_sentiment
     /\ (pc \in {"loaded", "hashed", "signed", "saved"} /\ pc' # "idle") =>
          sentiment_data' = sentiment_data
     /\ (pc \in {"hashed", "signed", "saved"} /\ pc' # "idle") =>
          data_hash' = data_hash
     /\ (pc = "signed" /\ pc' = "saved") =>
          /\ EmbedsRecord(fs_signed', sentiment_data, data_hash)
          /\ fs_original' = fs_original
     /\ pc \in {"keys", "loaded", "hashed"} => fs_signed' = fs_signed
     /\ pc = "saved" =>
          /\ fs_keypair' = fs_keypair
          /\ fs_sentiment' = fs_sentiment
          /\ fs_signed' = fs_signed
          /\ fs_original' = fs_original
    ]_vars

(* demo.main has gone through load, hash, sign, save and verify: the record
   in memory is still the record of the record file and of the envelope *)
C15_Witness ==
  /\ pc = "verified"
  /\ EmbedsRecord(fs_signed, sentiment_data, data_hash)
  /\ Identical(load_sentiment_data(fs_sentiment).val, sentiment_data)
  /\ keypair = load_keypair(fs_keypair).val

(* C16, as stated: once both envelope files have loaded, compare_hashes.py
   runs to its conclusion and ends without an uncaught error, also when the
   tampered record lacks a field of the original. *)
C16_CompareRunsToConclusion ==
  Compared => (stdout.result = "conclusion" /\ stdout.exit = 0)

(* the records of the result that come from a page, not from the generator *)
Scraped(tweets) == {i \in 1..Len(tweets) : tweets[i].source # "Sample"}

(* C17: get_tweets returns exactly limit records.  While the loop over the
   sources goes on, the records scraped so far are none or fewer than limit
   (it returns as soon as a page leaves it with records that reach limit);
   what it returns has exactly limit records: scraped records only when it
   returns from the loop, and otherwise the scraped records, fewer than
   limit, followed by generated sample records up to limit. *)
C17_ReturnsExactlyLimit ==
  /\ gt_pc = "loop" => (gt_tweets = <<>> \/ Len(gt_tweets) < gt_limit)
  /\ gt_pc = "loop" => Scraped(gt_tweets) = 1..Len(gt_tweets)
  /\ gt_pc = "returned" =>
       /\ Len(gt_result) = gt_limit
       /\ gt_result = Slice(gt_tweets, gt_limit)
       /\ gt_source <= Len(SOURCES) => Scraped(gt_result) = 1..gt_limit
       /\ gt_source > Len(SOURCES) =>
            /\ Cardinality(Scraped(gt_result)) < gt_limit \/ gt_limit = 0
            /\ Scraped(gt_result) = 1..Cardinality(Scraped(gt_result))

(* get_tweets has returned scraped records padded with sample records, one
   of the scraped records with the id of its tweet link *)
C17_Witness ==
  /\ gt_pc = "returned"
  /\ gt_source > Len(SOURCES)
  /\ Scraped(gt_result) # {}
  /\ Scraped(gt_result) # 1..Len(gt_result)
  /\ \E i \in Scraped(gt_result) : gt_result[i].id \in {LastSegment(h) : h \in Hrefs}
  /\ Len(gt_result) = gt_limit

(* the result carries the fields of the tweet *)
CarriesTweet(result, tweet) ==
  /\ result.id = tweet.id
  /\ result.text = tweet.content
  /\ result.date = tweet.date
  /\ result.username = tweet.username
  /\ result.source = tweet.source

(* one result for each of the first n tweets, in their order *)
ResultsFor(n) ==
  /\ Len(as_results) = n
  /\ \A k \in 1..n : CarriesTweet(as_results[k], as_tweets[k])

(* C18: analyze_sentiment returns one result per tweet, in input order.
   After every batch there is one result for each tweet of the batches done,
   in order, carrying the id, text, date, username and source of the tweet
   at its position; what is returned holds one result for every tweet of
   the list, whatever its length; and the call does return. *)
C18_OneResultPerTweet ==
  /\ [](as_pc = "loop" => ResultsFor(Min(as_i, Len(as_tweets))))
  /\ [](as_pc = "returned" => ResultsFor(Len(as_tweets)))
  /\ <>(as_pc = "returned")

(* analyze_sentiment has returned for a list longer than a batch whose
   length is not a multiple of the batch size *)
C18_Witness ==
  /\ as_pc = "returned"
  /\ Len(as_tweets) > batch_size
  /\ Len(as_tweets) % batch_size # 0
  /\ Len(as_results) = Len(as_tweets)

=============================================================================
